---- MODULE Spec2Model ----
(***************************************************************************)
(* Model of the spreadsheet side of the ETA transition helper:             *)
(* the linked-column bucket index (MatchingColumnsBucket), the edit        *)
(* trigger (onEdit / onCellEdit), the read-only rules, the staged marker   *)
(* and the mismatch highlighter.                                           *)
(*                                                                         *)
(* Cell values are JavaScript strings, modelled as sequences of one-       *)
(* character strings, so that hashCode_, isEmptyString, getArray and       *)
(* getDomain are computed character by character as the code does.         *)
(***************************************************************************)
EXTENDS Integers, Sequences, FiniteSets, TLC

(***************************************************************************)
(* Bounds of the model.                                                    *)
(***************************************************************************)
\* number of rows of the sheet from firstContentRow on
NumRows == 2
\* number of user edits of the main sheet in one behaviour
MaxEdits == 2
\* number of user edits in one behaviour when every column is edited
MaxFieldEdits == 1
\* number of direct addValue calls in one behaviour
MaxAdds == 2
\* number of calls made on one Ad object or on one row in one behaviour
MaxCalls == 2
\* number of content rows of the sheet the script reads
NumSyncRows == 2
\* number of passes of syncSpreadsheet in one behaviour
MaxPasses == 2
\* number of markAsError and markAsResolved calls on one row in one behaviour
MaxMarks == 4
\* number of steps the two users of the cache make in one behaviour
MaxSteps == 4
\* calls of exportSTA in one behaviour
MaxExports == 2
\* largest CONFIG.numOfAds
MaxAds == 3
\* runs of main in one behaviour
MaxRuns == 2

(***************************************************************************)
(* Strings.                                                                *)
(***************************************************************************)
EMPTY == << >>
sAa == <<"A", "a">>
sBB == <<"B", "B">>
sWwwAa == <<"w", "w", "w", ".", "a", "a">>
sCustomer == <<"c">>
sId == <<"7">>
sErr == <<"e", "r", "r">>
sEnabled == <<"e", "n", "a", "b", "l", "e", "d">>
sOn == <<"o", "n">>
sOff == <<"o", "f", "f">>
httpPrefix == <<"h", "t", "t", "p", ":", "/", "/">>
httpsPrefix == <<"h", "t", "t", "p", "s", ":", "/", "/">>
wwwPrefix == <<"w", "w", "w", ".">>

\* String.prototype.charCodeAt for the characters that occur in the model
CharCode(ch) ==
  CASE ch = " " -> 32
    [] ch = "\"" -> 34
    [] ch = "." -> 46
    [] ch = "/" -> 47
    [] ch = "7" -> 55
    [] ch = ":" -> 58
    [] ch = "A" -> 65
    [] ch = "B" -> 66
    [] ch = "[" -> 91
    [] ch = "]" -> 93
    [] ch = "a" -> 97
    [] ch = "b" -> 98
    [] ch = "c" -> 99
    [] ch = "d" -> 100
    [] ch = "e" -> 101
    [] ch = "f" -> 102
    [] ch = "h" -> 104
    [] ch = "i" -> 105
    [] ch = "l" -> 108
    [] ch = "n" -> 110
    [] ch = "o" -> 111
    [] ch = "p" -> 112
    [] ch = "r" -> 114
    [] ch = "s" -> 115
    [] ch = "t" -> 116
    [] ch = "w" -> 119

\* String.prototype.toLowerCase, one character
LowerChar(ch) ==
  CASE ch = "A" -> "a"
    [] ch = "B" -> "b"
    [] ch = "P" -> "p"
    [] ch = "Y" -> "y"
    [] OTHER -> ch

toLowerCase(s) == [i \in 1..Len(s) |-> LowerChar(s[i])]

\* indexOf(prefix) === 0
StartsWith(s, prefix) ==
  /\ Len(s) >= Len(prefix)
  /\ SubSeq(s, 1, Len(prefix)) = prefix

\* substr(n)
substr(s, n) == SubSeq(s, n + 1, Len(s))

\* isEmptyString on a string: falsy (the empty string) or blank after trim()
isEmptyString(str) == \A i \in 1..Len(str) : str[i] = " "

(***************************************************************************)
(* Configuration.                                                          *)
(***************************************************************************)
\* AdStatus.disabled
disabled == <<"d", "i", "s", "a", "b", "l", "e", "d">>

firstContentRow == 4

\* CONFIG.sheets.main.columns._order, restricted to the columns the edit
\* trigger reads
ColumnOrder ==
  <<"customerId", "displayUrl", "finalUrl", "staStatus", "etaStatus",
    "etaId", "errorMessage">>

\* columns[name].index + 1
ColumnIndex(name) == CHOOSE i \in 1..Len(ColumnOrder) : ColumnOrder[i] = name

nonEmptyColumnCheck == "customerId"

\* CONFIG.sheets.main.columnsToLink.names.  The shipped list is empty (no
\* column is linked); a deployment fills it, here with the two URL columns.
columnsToLink == <<"displayUrl", "finalUrl">>

\* CONFIG.sheets.main.mismatchColumns.names
mismatchColumns == <<"displayUrl", "finalUrl">>

\* CONFIG.sheets.main.readOnlyColumns, restricted to ColumnOrder
readOnlyColumns == {"customerId", "etaId", "errorMessage"}

\* cell backgrounds: none, markRowAsStaged's colour, mismatchColumns.color
NoColor == "none"
StagedColor == "#FFF3E0"
MismatchColor == "#FF0000"

Rows == firstContentRow..(firstContentRow + NumRows - 1)
Cols == 1..Len(ColumnOrder)
InSeq(x, s) == \E i \in 1..Len(s) : s[i] = x

(***************************************************************************)
(* MatchingColumnsBucket.                                                  *)
(***************************************************************************)
\* one step of the loop of hashCode_: hash = ((hash << 5) - hash) + chr,
\* then hash |= 0.  The 32-bit word is kept as two 16-bit halves.
HashStep(h, chr) ==
  LET lo == h.lo * 31 + chr
      hi == h.hi * 31 + (lo \div 65536)
  IN [hi |-> hi % 65536, lo |-> lo % 65536]

RECURSIVE HashFrom(_, _, _)
HashFrom(str, i, h) ==
  IF i > Len(str) THEN h
  ELSE HashFrom(str, i + 1, HashStep(h, CharCode(str[i])))

\* the signed 32-bit value of the word
ToInt32(h) ==
  IF h.hi >= 32768 THEN (h.hi - 65536) * 65536 + h.lo
  ELSE h.hi * 65536 + h.lo

hashCode_(str) ==
  IF isEmptyString(str) THEN 0
  ELSE ToInt32(HashFrom(str, 1, [hi |-> 0, lo |-> 0]))

\* values of a bucket entry and results of getValue: an array, null, or
\* undefined
Arr(rows) == [kind |-> "array", rows |-> rows]
Null == [kind |-> "null", rows |-> << >>]
Undefined == [kind |-> "undefined", rows |-> << >>]

\* this.matchingColumnsBuckets_ = {}
EmptyBuckets == [c \in {} |-> [h \in {} |-> Null]]

\* obj[key] = value
Put(obj, key, value) ==
  [k \in DOMAIN obj \cup {key} |-> IF k = key THEN value ELSE obj[k]]

\* CacheService entry under the storage key: absent, or the JSON text of the
\* structure
NoEntry == [present |-> FALSE, json |-> EmptyBuckets]

\* JSON.stringify: a property whose value is undefined is left out
stringify(buckets) ==
  [c \in DOMAIN buckets |->
     [h \in {k \in DOMAIN buckets[c] : buckets[c][k].kind # "undefined"} |->
        buckets[c][h]]]

\* load_: JSON.parse of the stored text, {} when nothing is stored
load_(storage) == IF storage.present THEN storage.json ELSE EmptyBuckets

\* save
save(buckets) == [present |-> TRUE, json |-> stringify(buckets)]

getValue(buckets, columnKey, bucketKey) ==
  IF isEmptyString(bucketKey) THEN [threw |-> TRUE, value |-> Undefined]
  ELSE IF columnKey \in DOMAIN buckets
    THEN LET bucketHash == hashCode_(bucketKey)
         IN [threw |-> FALSE,
             value |-> IF bucketHash \in DOMAIN buckets[columnKey]
                       THEN buckets[columnKey][bucketHash]
                       ELSE Undefined]
    ELSE [threw |-> FALSE, value |-> Null]

addValue(buckets, columnKey, bucketKey, value) ==
  IF isEmptyString(bucketKey) THEN [threw |-> TRUE, buckets |-> buckets]
  ELSE
    LET withColumn == IF columnKey \in DOMAIN buckets THEN buckets
                      ELSE Put(buckets, columnKey, [h \in {} |-> Null])
        bucketHash == hashCode_(bucketKey)
        column == withColumn[columnKey]
        withBucket == IF bucketHash \in DOMAIN column THEN withColumn
                      ELSE Put(withColumn, columnKey,
                               Put(column, bucketHash, Arr(<< >>)))
        bucket == withBucket[columnKey][bucketHash]
    IN IF bucket.kind # "array"
       THEN [threw |-> TRUE, buckets |-> withBucket]
       ELSE [threw |-> FALSE,
             buckets |-> Put(withBucket, columnKey,
                             Put(withBucket[columnKey], bucketHash,
                                 Arr(Append(bucket.rows, value))))]

\* transferBucket leaving the old bucket in place
transferBucket_KeepsCurrent(buckets, columnKey, currentBucketKey, newBucketKey) ==
  IF isEmptyString(currentBucketKey) \/ isEmptyString(newBucketKey)
  THEN [threw |-> TRUE, buckets |-> buckets]
  ELSE
    LET valuesToTransfer == getValue(buckets, columnKey, currentBucketKey).value
        valuesInNewBucket == getValue(buckets, columnKey, newBucketKey).value
        \* an array, even an empty one, is truthy
        concatenates == valuesInNewBucket.kind = "array"
        currentBucketHash == hashCode_(currentBucketKey)
        newBucketHash == hashCode_(newBucketKey)
    IN IF concatenates /\ valuesToTransfer.kind # "array"
       THEN [threw |-> TRUE, buckets |-> buckets]
       ELSE IF columnKey \notin DOMAIN buckets
       THEN [threw |-> TRUE, buckets |-> buckets]
       ELSE
         LET merged == IF concatenates
                       THEN Arr(valuesToTransfer.rows \o valuesInNewBucket.rows)
                       ELSE valuesToTransfer
             afterNew == Put(buckets[columnKey], newBucketHash, merged)
             afterCurrent == afterNew
         IN [threw |-> FALSE, buckets |-> Put(buckets, columnKey, afterCurrent)]

transferBucket(buckets, columnKey, currentBucketKey, newBucketKey) ==
  IF isEmptyString(currentBucketKey) \/ isEmptyString(newBucketKey)
  THEN [threw |-> TRUE, buckets |-> buckets]
  ELSE
    LET valuesToTransfer == getValue(buckets, columnKey, currentBucketKey).value
        valuesInNewBucket == getValue(buckets, columnKey, newBucketKey).value
        \* an array, even an empty one, is truthy
        concatenates == valuesInNewBucket.kind = "array"
        currentBucketHash == hashCode_(currentBucketKey)
        newBucketHash == hashCode_(newBucketKey)
    IN IF concatenates /\ valuesToTransfer.kind # "array"
       THEN [threw |-> TRUE, buckets |-> buckets]
       ELSE IF columnKey \notin DOMAIN buckets
       THEN [threw |-> TRUE, buckets |-> buckets]
       ELSE
         LET merged == IF concatenates
                       THEN Arr(valuesToTransfer.rows \o valuesInNewBucket.rows)
                       ELSE valuesToTransfer
             afterNew == Put(buckets[columnKey], newBucketHash, merged)
             afterCurrent == Put(afterNew, currentBucketHash, Null)
         IN [threw |-> FALSE, buckets |-> Put(buckets, columnKey, afterCurrent)]

(***************************************************************************)
(* SpreadsheetRow.getArray, getDomain, highlightMismatchFields.            *)
(***************************************************************************)
IsDigits(s) == Len(s) > 0 /\ \A i \in 1..Len(s) : s[i] = "7"
HasQuote(s) == \E i \in 1..Len(s) : s[i] = "\""
IsArrayOfOne(s) ==
  /\ Len(s) >= 4
  /\ SubSeq(s, 1, 2) = <<"[", "\"">>
  /\ SubSeq(s, Len(s) - 1, Len(s)) = <<"\"", "]">>
  /\ ~HasQuote(SubSeq(s, 3, Len(s) - 2))

\* getArray on the texts of the model's alphabet: blank, [], ["x"], a number
\* (parsed, then rejected as neither array nor string), a bare string
\* (parsed after wrapping it in quotes), anything else rejected
getArray(value) ==
  IF isEmptyString(value) THEN [threw |-> FALSE, values |-> << >>]
  ELSE IF value = <<"[", "]">> THEN [threw |-> FALSE, values |-> << >>]
  ELSE IF IsArrayOfOne(value)
    THEN [threw |-> FALSE, values |-> <<SubSeq(value, 3, Len(value) - 2)>>]
  ELSE IF IsDigits(value) THEN [threw |-> TRUE, values |-> << >>]
  ELSE IF HasQuote(value) THEN [threw |-> TRUE, values |-> << >>]
  ELSE [threw |-> FALSE, values |-> <<value>>]

\* split('/')[0]
BeforeSlash(s) ==
  LET slashes == {i \in 1..Len(s) : s[i] = "/"}
  IN IF slashes = {} THEN s
     ELSE SubSeq(s, 1, (CHOOSE i \in slashes : \A j \in slashes : i <= j) - 1)

\* getDomain on a list's first element; urls[0] of an empty list is
\* undefined, which getDomain rejects like a blank string
getDomain(urls) ==
  IF Len(urls) = 0 \/ isEmptyString(urls[1])
  THEN [threw |-> TRUE, domain |-> EMPTY]
  ELSE
    LET url == urls[1]
        noHttp == IF StartsWith(url, httpPrefix)
                  THEN substr(url, Len(httpPrefix)) ELSE url
        noHttps == IF StartsWith(noHttp, httpsPrefix)
                   THEN substr(noHttp, Len(httpsPrefix)) ELSE noHttp
        noWww == IF StartsWith(noHttps, wwwPrefix)
                 THEN substr(noHttps, Len(wwwPrefix)) ELSE noHttps
    IN [threw |-> FALSE, domain |-> toLowerCase(BeforeSlash(noWww))]

\* the columnNames.every(...) loop of highlightMismatchFields from the i-th
\* compared column on
RECURSIVE AllMatchFrom(_, _, _, _)
AllMatchFrom(row, i, init, previousDomain) ==
  IF i > Len(mismatchColumns) THEN [threw |-> FALSE, allMatch |-> TRUE]
  ELSE
    LET urls == getArray(row[ColumnIndex(mismatchColumns[i])])
        dom == getDomain(urls.values)
    IN IF urls.threw \/ dom.threw THEN [threw |-> TRUE, allMatch |-> FALSE]
       ELSE IF ~init /\ previousDomain # dom.domain
         THEN [threw |-> FALSE, allMatch |-> FALSE]
       ELSE AllMatchFrom(row, i + 1, FALSE, dom.domain)

IsMismatchColumn(c) == InSeq(ColumnOrder[c], mismatchColumns)
IsLinkedColumn(c) == InSeq(ColumnOrder[c], columnsToLink)

highlightMismatchFields(sheetCells, sheetBg, rowIndex) ==
  LET res == AllMatchFrom(sheetCells[rowIndex], 1, TRUE, EMPTY)
      highlightColor == IF res.allMatch THEN NoColor ELSE MismatchColor
  IN IF res.threw THEN [threw |-> TRUE, bg |-> sheetBg]
     ELSE [threw |-> FALSE,
           bg |-> [sheetBg EXCEPT ![rowIndex] =
                     [c \in Cols |-> IF IsMismatchColumn(c) THEN highlightColor
                                     ELSE sheetBg[rowIndex][c]]]]

(***************************************************************************)
(* linkMatchingColumns.                                                    *)
(***************************************************************************)
\* getContentRows: the rows whose nonEmptyColumnCheck cell is not blank, in
\* sheet order
RECURSIVE ContentRowsFrom(_, _)
ContentRowsFrom(sheetCells, r) ==
  IF r > firstContentRow + NumRows - 1 THEN << >>
  ELSE IF isEmptyString(sheetCells[r][ColumnIndex(nonEmptyColumnCheck)])
    THEN ContentRowsFrom(sheetCells, r + 1)
  ELSE <<r>> \o ContentRowsFrom(sheetCells, r + 1)

getContentRows(sheetCells) == ContentRowsFrom(sheetCells, firstContentRow)

\* the columnsToLink.names.forEach(...) loop for one row
RECURSIVE AddColumnsFrom(_, _, _, _)
AddColumnsFrom(acc, sheetCells, rowIndex, i) ==
  IF i > Len(columnsToLink) \/ acc.threw THEN acc
  ELSE
    LET columnIndex == ColumnIndex(columnsToLink[i])
        value == sheetCells[rowIndex][columnIndex]
    IN AddColumnsFrom(IF isEmptyString(value) THEN acc
                      ELSE addValue(acc.buckets, columnIndex, value, rowIndex),
                      sheetCells, rowIndex, i + 1)

\* the nonEmptyRows.forEach(...) loop, then save(); a raise leaves the entry
\* that clear() emptied
RECURSIVE LinkRowsFrom(_, _, _, _, _)
LinkRowsFrom(rows, i, buckets, sheetCells, sheetBg) ==
  IF i > Len(rows)
  THEN [threw |-> FALSE, bg |-> sheetBg, storage |-> save(buckets)]
  ELSE
    LET added == AddColumnsFrom([threw |-> FALSE, buckets |-> buckets],
                                sheetCells, rows[i], 1)
        lit == highlightMismatchFields(sheetCells, sheetBg, rows[i])
    IN IF added.threw \/ lit.threw
       THEN [threw |-> TRUE, bg |-> sheetBg, storage |-> NoEntry]
       ELSE LinkRowsFrom(rows, i + 1, added.buckets, sheetCells, lit.bg)

linkMatchingColumns(sheetCells, sheetBg) ==
  LinkRowsFrom(getContentRows(sheetCells), 1, EmptyBuckets, sheetCells, sheetBg)

(***************************************************************************)
(* The edit trigger.                                                       *)
(***************************************************************************)
\* An event is [row, col, oldValue, value].  Every handler below takes the
\* sheet as the trigger finds it, the edited cell already holding
\* event.value, and returns what it leaves behind together with whether it
\* raised.

\* handleLinkedRangeEdit without the newValue === oldValue test
handleLinkedRangeEdit_NoSameValueTest(sheetCells, storage, event) ==
  LET loaded == load_(storage)
      unchanged == [threw |-> FALSE, returnedFalse |-> TRUE,
                    cells |-> sheetCells, storage |-> storage,
                    buckets |-> loaded, linkedRows |-> << >>]
  IN IF isEmptyString(event.oldValue)
     THEN unchanged
     ELSE
       LET rowsToChange == getValue(loaded, event.col, event.oldValue).value
           \* row.setValueAt(columnIndex, newValue) for every linked row
           written == [r \in Rows |->
                         IF InSeq(r, rowsToChange.rows)
                         THEN [sheetCells[r] EXCEPT ![event.col] = event.value]
                         ELSE sheetCells[r]]
           moved == transferBucket(loaded, event.col, event.oldValue,
                                   event.value)
       IN IF rowsToChange.kind # "array"
          \* forEach of null or undefined
          THEN [unchanged EXCEPT !.threw = TRUE, !.returnedFalse = FALSE]
          ELSE IF moved.threw
          THEN [threw |-> TRUE, returnedFalse |-> FALSE, cells |-> written,
                storage |-> storage, buckets |-> moved.buckets,
                linkedRows |-> rowsToChange.rows]
          ELSE [threw |-> FALSE, returnedFalse |-> FALSE, cells |-> written,
                storage |-> save(moved.buckets), buckets |-> moved.buckets,
                linkedRows |-> rowsToChange.rows]

handleLinkedRangeEdit(sheetCells, storage, event) ==
  LET loaded == load_(storage)
      unchanged == [threw |-> FALSE, returnedFalse |-> TRUE,
                    cells |-> sheetCells, storage |-> storage,
                    buckets |-> loaded, linkedRows |-> << >>]
  IN IF isEmptyString(event.oldValue) \/ event.value = event.oldValue
     THEN unchanged
     ELSE
       LET rowsToChange == getValue(loaded, event.col, event.oldValue).value
           \* row.setValueAt(columnIndex, newValue) for every linked row
           written == [r \in Rows |->
                         IF InSeq(r, rowsToChange.rows)
                         THEN [sheetCells[r] EXCEPT ![event.col] = event.value]
                         ELSE sheetCells[r]]
           moved == transferBucket(loaded, event.col, event.oldValue,
                                   event.value)
       IN IF rowsToChange.kind # "array"
          \* forEach of null or undefined
          THEN [unchanged EXCEPT !.threw = TRUE, !.returnedFalse = FALSE]
          ELSE IF moved.threw
          THEN [threw |-> TRUE, returnedFalse |-> FALSE, cells |-> written,
                storage |-> storage, buckets |-> moved.buckets,
                linkedRows |-> rowsToChange.rows]
          ELSE [threw |-> FALSE, returnedFalse |-> FALSE, cells |-> written,
                storage |-> save(moved.buckets), buckets |-> moved.buckets,
                linkedRows |-> rowsToChange.rows]

\* the modifiedRows.forEach(...) loop of handleMismatchRangeEdit
RECURSIVE HighlightRowsFrom(_, _, _, _)
HighlightRowsFrom(modifiedRows, i, sheetCells, sheetBg) ==
  IF i > Len(modifiedRows) THEN [threw |-> FALSE, bg |-> sheetBg]
  ELSE
    LET lit == highlightMismatchFields(sheetCells, sheetBg, modifiedRows[i])
    IN IF lit.threw THEN [threw |-> TRUE, bg |-> sheetBg]
       ELSE HighlightRowsFrom(modifiedRows, i + 1, sheetCells, lit.bg)

\* linkedRows holds the rows handleLinkedRangeEdit wrote, each read from the
\* sheet when it was written and carrying the new value: the sheet's own
\* content of these rows
handleMismatchRangeEdit(sheetCells, sheetBg, event, linkedRows) ==
  HighlightRowsFrom(linkedRows \o <<event.row>>, 1, sheetCells, sheetBg)

\* hasError with the test inverted
hasError_Inverted(sheetCells, rowIndex) ==
  isEmptyString(sheetCells[rowIndex][ColumnIndex("errorMessage")])

hasError(sheetCells, rowIndex) ==
  ~isEmptyString(sheetCells[rowIndex][ColumnIndex("errorMessage")])

markRowAsStaged(sheetBg, rowIndex) ==
  [sheetBg EXCEPT ![rowIndex] = [c \in Cols |-> StagedColor]]

\* isReadOnly without the previous-value rule of the status columns
isReadOnly_NoPreviousDisabled(sheetCells, rowIndex, columnName, oldValue) ==
  \/ columnName \in readOnlyColumns
  \/ sheetCells[rowIndex][ColumnIndex("etaStatus")] = disabled
  \/ /\ ~isEmptyString(sheetCells[rowIndex][ColumnIndex("etaId")])
     /\ columnName # "etaStatus"
     /\ columnName # "staStatus"

\* isReadOnly without the rule for a created ETA
isReadOnly_NoCreatedRule(sheetCells, rowIndex, columnName, oldValue) ==
  \/ columnName \in readOnlyColumns
  \/ /\ columnName \in {"staStatus", "etaStatus"}
     /\ oldValue = disabled
  \/ sheetCells[rowIndex][ColumnIndex("etaStatus")] = disabled

isReadOnly(sheetCells, rowIndex, columnName, oldValue) ==
  \/ columnName \in readOnlyColumns
  \/ /\ columnName \in {"staStatus", "etaStatus"}
     /\ oldValue = disabled
  \/ sheetCells[rowIndex][ColumnIndex("etaStatus")] = disabled
  \/ /\ ~isEmptyString(sheetCells[rowIndex][ColumnIndex("etaId")])
     /\ columnName # "etaStatus"
     /\ columnName # "staStatus"

revertEdit(sheetCells, rowIndex, colIndex, oldValue) ==
  IF isEmptyString(oldValue) THEN sheetCells
  ELSE [sheetCells EXCEPT ![rowIndex][colIndex] = oldValue]

\* refreshCache: a full rebuild when the entry is absent
refreshCache(sheetCells, sheetBg, storage) ==
  IF storage.present
  THEN [threw |-> FALSE, rebuilt |-> FALSE, bg |-> sheetBg,
        storage |-> storage]
  ELSE LET built == linkMatchingColumns(sheetCells, sheetBg)
       IN [threw |-> built.threw, rebuilt |-> TRUE, bg |-> built.bg,
           storage |-> built.storage]

\* onCellEdit is written as one operator per stage, each taking what the
\* stage before it produced.  stage tells how far the handler came:
\* "readonly" (reverted), "refresh", "linked", "mismatch" (raised there),
\* "done".
EditResult(sheetCells, sheetBg, storage) ==
  [cells |-> sheetCells, bg |-> sheetBg, storage |-> storage,
   stage |-> "done", rebuilt |-> FALSE, linkedCalled |-> FALSE,
   storageAtCall |-> storage, bucketsAtReturn |-> EmptyBuckets]

\* lines 222-229: handleMismatchRangeEdit when the column is compared
MismatchStage(soFar, linkedRows, event) ==
  IF ~IsMismatchColumn(event.col) THEN soFar
  ELSE LET lit == handleMismatchRangeEdit(soFar.cells, soFar.bg, event,
                                          linkedRows)
       IN [soFar EXCEPT !.bg = lit.bg,
                        !.stage = IF lit.threw THEN "mismatch" ELSE "done"]

\* lines 215-218: handleLinkedRangeEdit on the refreshed entry
LinkedStage(soFar, linked, fresh, event) ==
  LET afterLinked == [soFar EXCEPT !.cells = linked.cells,
                                   !.storage = linked.storage,
                                   !.rebuilt = fresh.rebuilt,
                                   !.linkedCalled = TRUE,
                                   !.storageAtCall = fresh.storage,
                                   !.bucketsAtReturn = linked.buckets]
  IN IF linked.threw THEN [afterLinked EXCEPT !.stage = "linked"]
     ELSE MismatchStage(afterLinked, linked.linkedRows, event)

\* lines 211-213: refreshCache
RefreshStage(soFar, fresh, event) ==
  IF fresh.threw
  THEN [soFar EXCEPT !.bg = fresh.bg, !.storage = fresh.storage,
                     !.stage = "refresh", !.rebuilt = TRUE]
  ELSE LinkedStage([soFar EXCEPT !.bg = fresh.bg],
                   handleLinkedRangeEdit(soFar.cells, fresh.storage, event),
                   fresh, event)

onCellEdit(sheetCells, sheetBg, storage, linkingCell, event) ==
  IF isReadOnly(sheetCells, event.row, ColumnOrder[event.col], event.oldValue)
  THEN [EditResult(revertEdit(sheetCells, event.row, event.col,
                              event.oldValue), sheetBg, storage)
          EXCEPT !.stage = "readonly"]
  ELSE
    LET staged == IF hasError(sheetCells, event.row)
                  THEN markRowAsStaged(sheetBg, event.row) ELSE sheetBg
        soFar == EditResult(sheetCells, staged, storage)
    IN IF IsLinkedColumn(event.col) /\ toLowerCase(linkingCell) = sOn
       THEN RefreshStage(soFar, refreshCache(sheetCells, staged, storage),
                         event)
       ELSE MismatchStage(soFar, << >>, event)

(***************************************************************************)
(* State.                                                                  *)
(***************************************************************************)
VARIABLES
  cells,        \* main sheet: cells[row][column], rows from firstContentRow
  bg,           \* main sheet: background of every cell
  linkingCell,  \* settings sheet: the enableMatchingColumnsLinkingCell value
  storage,      \* CacheService entry under the storage key
  buckets,      \* matchingColumnsBuckets_ of an instance driven directly
  edits,        \* user edits of the main sheet so far
  adds,         \* direct addValue calls so far
  chain,        \* accepted edits with linking on since the last complete
                \* rebuild, -1 when no such rebuild stands
  last,         \* the operation that led to this state, with what it found
  ad,           \* script: one Ad object, the platform's ad and the calls made
  sync          \* script: the sheet the script reads, the platform and the
                \* pass in progress

vars == <<cells, bg, linkingCell, storage, buckets, edits, adds, chain, last,
          ad, sync>>

\* the spreadsheet side and the script side do not share state
sheetVars == <<cells, bg, linkingCell, storage, buckets, edits, adds, chain,
               last>>
scriptVars == <<ad, sync>>

\* no script has run
NoAd == [calls |-> << >>]
NoSync == [passes |-> 0]

NoPrev == [qualified |-> FALSE, col |-> 0, oldValue |-> EMPTY, value |-> EMPTY]

NoLast ==
  [op |-> "none", row |-> 0, col |-> 0, oldValue |-> EMPTY, value |-> EMPTY,
   stage |-> "none", linkingOn |-> FALSE, linkedCalled |-> FALSE,
   rebuilt |-> FALSE, chainBefore |-> -1, threw |-> FALSE,
   pre |-> << >>, preBg |-> << >>, preStorage |-> NoEntry,
   storageAtCall |-> NoEntry, bucketsAtReturn |-> EmptyBuckets,
   preBuckets |-> EmptyBuckets, prev |-> NoPrev]

BlankRow == [c \in Cols |-> EMPTY]
Row(customerId, displayUrl, finalUrl, staStatus, etaStatus, etaId, errorMessage) ==
  <<customerId, displayUrl, finalUrl, staStatus, etaStatus, etaId, errorMessage>>

\* rows a sheet starts with when the URL columns are edited
LinkRows ==
  { Row(sCustomer, sAa, sAa, sEnabled, sEnabled, EMPTY, EMPTY),
    Row(sCustomer, sBB, sWwwAa, sEnabled, sEnabled, EMPTY, EMPTY),
    BlankRow }

\* rows a sheet starts with when every column is edited
FieldRows ==
  { Row(sCustomer, sAa, sAa, sEnabled, sEnabled, EMPTY, EMPTY),
    Row(sCustomer, sAa, sBB, sEnabled, sEnabled, sId, sErr),
    Row(sCustomer, sAa, sAa, disabled, disabled, sId, EMPTY),
    Row(sCustomer, sBB, sBB, disabled, EMPTY, EMPTY, sErr) }

UrlValues == {EMPTY, sAa, sBB, sWwwAa}

\* what a user types into a cell of each column
ValuesOf(c) ==
  CASE ColumnOrder[c] = "customerId" -> {EMPTY}
    [] ColumnOrder[c] = "displayUrl" -> {EMPTY, sBB}
    [] ColumnOrder[c] = "finalUrl" -> {sAa, sBB}
    [] ColumnOrder[c] = "staStatus" -> {sEnabled, disabled}
    [] ColumnOrder[c] = "etaStatus" -> {EMPTY, sEnabled, disabled}
    [] ColumnOrder[c] = "etaId" -> {EMPTY, sId}
    [] ColumnOrder[c] = "errorMessage" -> {sErr}

BucketKeys == {sAa, sBB, sWwwAa}

InitSheet(rows) ==
  /\ cells \in [Rows -> rows]
  /\ bg = [r \in Rows |-> [c \in Cols |-> NoColor]]
  /\ linkingCell = sOn
  /\ storage = NoEntry
  /\ buckets = EmptyBuckets
  /\ edits = 0
  /\ adds = 0
  /\ chain = -1
  /\ last = NoLast

NoScript == ad = NoAd /\ sync = NoSync

InitLink == InitSheet(LinkRows) /\ NoScript
InitField == InitSheet(FieldRows) /\ NoScript
InitBucket == InitSheet({BlankRow}) /\ NoScript

(***************************************************************************)
(* Operations on the sheet.                                                *)
(***************************************************************************)
\* onOpen: initConfig, then linkMatchingColumns
OnOpen ==
  \E built \in {linkMatchingColumns(cells, bg)} :
    /\ bg' = built.bg
    /\ storage' = built.storage
    /\ chain' = IF built.threw \/ toLowerCase(linkingCell) # sOn THEN -1 ELSE 0
    /\ last' = [NoLast EXCEPT !.op = "link", !.threw = built.threw]
    /\ UNCHANGED <<cells, linkingCell, buckets, edits, adds>>
    /\ UNCHANGED scriptVars

\* onEdit for an edit of the linking toggle on the settings sheet: a value
\* that reads 'on' runs linkMatchingColumns
SetLinking(value) ==
  /\ linkingCell' = value
  /\ IF toLowerCase(value) = sOn
     THEN \E built \in {linkMatchingColumns(cells, bg)} :
            /\ bg' = built.bg
            /\ storage' = built.storage
            /\ chain' = IF built.threw THEN -1 ELSE 0
            /\ last' = [NoLast EXCEPT !.op = "link", !.threw = built.threw]
     ELSE /\ chain' = -1
          /\ last' = [NoLast EXCEPT !.op = "toggle"]
          /\ UNCHANGED <<bg, storage>>
  /\ UNCHANGED <<cells, buckets, edits, adds>>
  /\ UNCHANGED scriptVars

\* the cache drops the entry (it is stored for 21600 seconds)
CacheExpire ==
  /\ storage.present
  /\ storage' = NoEntry
  /\ chain' = -1
  /\ last' = [NoLast EXCEPT !.op = "expire"]
  /\ UNCHANGED <<cells, bg, linkingCell, buckets, edits, adds>>
  /\ UNCHANGED scriptVars

\* A user sets cell (r, c) of the main sheet to v; the sheet stores it and
\* fires onEdit, which runs onCellEdit.
OnEdit(r, c, v) ==
  \E res \in {onCellEdit([cells EXCEPT ![r][c] = v], bg, storage, linkingCell,
                         [row |-> r, col |-> c, oldValue |-> cells[r][c],
                          value |-> v])} :
    LET linkingOn == toLowerCase(linkingCell) = sOn
        chainBefore == IF ~res.rebuilt THEN chain
                       ELSE IF res.stage = "refresh" THEN -1 ELSE 0
        prev == IF last.op = "edit"
                THEN [qualified |-> /\ last.linkedCalled
                                    /\ last.chainBefore = 0
                                    /\ ~isEmptyString(last.oldValue)
                                    /\ ~isEmptyString(last.value)
                                    /\ last.oldValue # last.value,
                      col |-> last.col, oldValue |-> last.oldValue,
                      value |-> last.value]
                ELSE NoPrev
    IN /\ cells' = res.cells
       /\ bg' = res.bg
       /\ storage' = res.storage
       /\ edits' = edits + 1
       /\ chain' = IF res.stage = "readonly" \/ ~linkingOn \/ chainBefore = -1
                   THEN -1 ELSE chainBefore + 1
       /\ last' = [NoLast EXCEPT !.op = "edit", !.row = r, !.col = c,
                                 !.oldValue = cells[r][c], !.value = v,
                                 !.stage = res.stage, !.linkingOn = linkingOn,
                                 !.linkedCalled = res.linkedCalled,
                                 !.rebuilt = res.rebuilt,
                                 !.chainBefore = chainBefore,
                                 !.threw = res.stage \in {"refresh", "linked",
                                                          "mismatch"},
                                 !.pre = cells, !.preBg = bg,
                                 !.preStorage = storage,
                                 !.storageAtCall = res.storageAtCall,
                                 !.bucketsAtReturn = res.bucketsAtReturn,
                                 !.prev = prev]
       /\ UNCHANGED <<linkingCell, buckets, adds>>
       /\ UNCHANGED scriptVars

EditUrl ==
  /\ edits < MaxEdits
  /\ \E r \in Rows, c \in Cols, v \in UrlValues :
       /\ IsLinkedColumn(c)
       /\ OnEdit(r, c, v)

ToggleLinking == \E value \in {sOn, sOff} : SetLinking(value)

NextLink == OnOpen \/ CacheExpire \/ EditUrl

SpecLink == InitLink /\ [][NextLink]_vars

EditField ==
  /\ edits < MaxFieldEdits
  /\ \E r \in Rows, c \in Cols : \E v \in ValuesOf(c) : OnEdit(r, c, v)

NextField == OnOpen \/ ToggleLinking \/ EditField

SpecField == InitField /\ [][NextField]_vars

(***************************************************************************)
(* A MatchingColumnsBucket instance driven call by call.                   *)
(***************************************************************************)
LinkedIndices == {ColumnIndex(columnsToLink[i]) : i \in 1..Len(columnsToLink)}

CallAddValue(columnKey, bucketKey, value) ==
  /\ adds < MaxAdds
  /\ \E res \in {addValue(buckets, columnKey, bucketKey, value)} :
       /\ buckets' = res.buckets
       /\ last' = [NoLast EXCEPT !.op = "addValue", !.col = columnKey,
                                 !.value = bucketKey, !.row = value,
                                 !.threw = res.threw]
  /\ adds' = adds + 1
  /\ UNCHANGED <<cells, bg, linkingCell, storage, edits, chain>>
  /\ UNCHANGED scriptVars

CallTransferBucket(columnKey, currentBucketKey, newBucketKey) ==
  /\ \E res \in {transferBucket(buckets, columnKey, currentBucketKey,
                                newBucketKey)} :
       /\ buckets' = res.buckets
       /\ last' = [NoLast EXCEPT !.op = "transferBucket", !.col = columnKey,
                                 !.oldValue = currentBucketKey,
                                 !.value = newBucketKey,
                                 !.threw = res.threw, !.preBuckets = buckets]
  /\ UNCHANGED <<cells, bg, linkingCell, storage, edits, adds, chain>>
  /\ UNCHANGED scriptVars

AddSome ==
  \E columnKey \in LinkedIndices, bucketKey \in BucketKeys, value \in Rows :
    CallAddValue(columnKey, bucketKey, value)

TransferSome ==
  \E columnKey \in LinkedIndices, k1 \in BucketKeys \cup {EMPTY},
     k2 \in BucketKeys \cup {EMPTY} :
    CallTransferBucket(columnKey, k1, k2)

NextBucket == AddSome \/ TransferSome

SpecBucket == InitBucket /\ [][NextBucket]_vars

(***************************************************************************)
(* The script: texts of the cells it reads.                                *)
(***************************************************************************)
sPaused == <<"p", "a", "u", "s", "e", "d">>
sPausedPadded == <<"P", "a", "u", "s", "e", "d", " ">>
sYes == <<"y", "e", "s">>
sYesPadded == <<"Y", "e", "s", " ">>
sNo == <<"n", "o">>
sAaPadded == <<" ", "A", "a">>
sBlank == <<" ">>

RECURSIVE TrimLeft(_)
TrimLeft(s) ==
  IF Len(s) > 0 /\ Head(s) = " " THEN TrimLeft(Tail(s)) ELSE s

RECURSIVE TrimRight(_)
TrimRight(s) ==
  IF Len(s) > 0 /\ s[Len(s)] = " "
  THEN TrimRight(SubSeq(s, 1, Len(s) - 1)) ELSE s

\* String.prototype.trim
trim(s) == TrimRight(TrimLeft(s))

(***************************************************************************)
(* Ad: an ad of the platform, known through a report row (row.status,      *)
(* row.labels, row.id) or through the platform's own object (this.ad).     *)
(* The platform's ad is passed along with the object: exists, status,      *)
(* labels.  An object made in preview mode has a negative id and no ad on  *)
(* the platform.                                                           *)
(***************************************************************************)
Ad(hasAd, id, rowStatus, rowLabels) ==
  [hasAd |-> hasAd, id |-> id, rowStatus |-> rowStatus,
   rowLabels |-> rowLabels]

PlatformAd(exists, status, labels) ==
  [exists |-> exists, status |-> status, labels |-> labels]

NoPlatformAd == PlatformAd(FALSE, EMPTY, << >>)

\* Ad.prototype.getStatus
getStatus(a, p) ==
  IF a.hasAd
  THEN [threw |-> FALSE,
        value |-> IF a.id > 0
                  THEN IF p.status = sEnabled THEN sEnabled
                       ELSE IF p.status = sPaused THEN sPaused
                       ELSE EMPTY
                  ELSE EMPTY]
  ELSE IF ~isEmptyString(a.rowStatus)
    THEN [threw |-> FALSE, value |-> a.rowStatus]
  ELSE [threw |-> TRUE, value |-> EMPTY]

\* Ad.prototype.getAd: the selector finds the ad when the platform has it
Ad_getAd(a, p) ==
  IF p.exists THEN [found |-> TRUE, ad |-> [a EXCEPT !.hasAd = TRUE]]
  ELSE [found |-> FALSE, ad |-> a]

\* the equality test against the current status is never met
syncStatus_NoShortCircuit(a, p, status, mutationFails) ==
  LET out(threw, ok, obj, platform, called) ==
        [threw |-> threw, ok |-> ok, ad |-> obj, platform |-> platform,
         called |-> called]
      normalizedStatus == toLowerCase(trim(status))
      current == getStatus(a, p)
      fetched == IF a.hasAd THEN [found |-> TRUE, ad |-> a]
                 ELSE Ad_getAd(a, p)
      mutate(obj, newStatus) ==
        IF mutationFails THEN out(FALSE, FALSE, obj, p, TRUE)
        ELSE out(FALSE, TRUE, obj, [p EXCEPT !.status = newStatus], TRUE)
  IN IF isEmptyString(status) THEN out(TRUE, FALSE, a, p, FALSE)
     ELSE IF current.threw THEN out(TRUE, FALSE, a, p, FALSE)
     ELSE IF FALSE
       THEN out(FALSE, TRUE, a, p, FALSE)
     ELSE IF ~fetched.found THEN out(FALSE, FALSE, a, p, FALSE)
     ELSE IF fetched.ad.id < 0 THEN out(FALSE, TRUE, fetched.ad, p, FALSE)
     ELSE IF normalizedStatus = sEnabled THEN mutate(fetched.ad, sEnabled)
     ELSE IF normalizedStatus = sPaused THEN mutate(fetched.ad, sPaused)
     ELSE IF normalizedStatus = EMPTY THEN mutate(fetched.ad, sPaused)
     ELSE out(FALSE, FALSE, fetched.ad, p, FALSE)

\* Ad.prototype.syncStatus; mutationFails: enable() or pause() raises.
\* called: enable() or pause() was invoked
syncStatus(a, p, status, mutationFails) ==
  LET out(threw, ok, obj, platform, called) ==
        [threw |-> threw, ok |-> ok, ad |-> obj, platform |-> platform,
         called |-> called]
      normalizedStatus == toLowerCase(trim(status))
      current == getStatus(a, p)
      fetched == IF a.hasAd THEN [found |-> TRUE, ad |-> a]
                 ELSE Ad_getAd(a, p)
      mutate(obj, newStatus) ==
        IF mutationFails THEN out(FALSE, FALSE, obj, p, TRUE)
        ELSE out(FALSE, TRUE, obj, [p EXCEPT !.status = newStatus], TRUE)
  IN IF isEmptyString(status) THEN out(TRUE, FALSE, a, p, FALSE)
     ELSE IF current.threw THEN out(TRUE, FALSE, a, p, FALSE)
     ELSE IF current.value = normalizedStatus
       THEN out(FALSE, TRUE, a, p, FALSE)
     ELSE IF ~fetched.found THEN out(FALSE, FALSE, a, p, FALSE)
     ELSE IF fetched.ad.id < 0 THEN out(FALSE, TRUE, fetched.ad, p, FALSE)
     ELSE IF normalizedStatus = sEnabled THEN mutate(fetched.ad, sEnabled)
     ELSE IF normalizedStatus = sPaused THEN mutate(fetched.ad, sPaused)
     ELSE IF normalizedStatus = EMPTY THEN mutate(fetched.ad, sPaused)
     ELSE out(FALSE, FALSE, fetched.ad, p, FALSE)

\* Ad.prototype.getLabels
getLabels(a, p) ==
  IF a.hasAd THEN (IF a.id > 0 THEN p.labels ELSE << >>)
  ELSE a.rowLabels

TrimAll(names) == [i \in 1..Len(names) |-> trim(names[i])]

\* Ad.prototype.diffLabels_
diffLabels_(a, p, newLabelNames) ==
  LET currentLabelNames == getLabels(a, p)
      add == SelectSeq(TrimAll(newLabelNames),
                       LAMBDA n : ~InSeq(n, currentLabelNames))
      remove == SelectSeq(TrimAll(currentLabelNames),
                          LAMBDA n : ~InSeq(n, newLabelNames))
  IN [add |-> add, remove |-> remove,
      hasDiff |-> add # << >> \/ remove # << >>]

\* createLabel: the label exists or is created; failCreate: the names whose
\* creation raises
createLabel(labelName, failCreate) ==
  ~isEmptyString(labelName) /\ trim(labelName) \notin failCreate

\* the forEach of syncLabels over the names to add, from the i-th one;
\* failApply: the names whose applyLabel raises
RECURSIVE ApplyFrom(_, _, _, _, _, _, _)
\* the loop ends at the first name that fails
ApplyFrom_StopsAtFailure(i, add, a, p, allApplied, failCreate, failApply) ==
  IF i > Len(add) THEN [ok |-> allApplied, platform |-> p]
  ELSE IF ~createLabel(add[i], failCreate)
    THEN [ok |-> FALSE, platform |-> p]
  ELSE IF a.id > 0 /\ add[i] \in failApply
    THEN [ok |-> FALSE, platform |-> p]
  ELSE IF a.id > 0 /\ ~InSeq(add[i], p.labels)
    THEN ApplyFrom(i + 1, add, a,
                   [p EXCEPT !.labels = Append(p.labels, add[i])],
                   allApplied, failCreate, failApply)
  ELSE ApplyFrom(i + 1, add, a, p, allApplied, failCreate, failApply)

ApplyFrom(i, add, a, p, allApplied, failCreate, failApply) ==
  IF i > Len(add) THEN [ok |-> allApplied, platform |-> p]
  ELSE IF ~createLabel(add[i], failCreate)
    THEN ApplyFrom(i + 1, add, a, p, FALSE, failCreate, failApply)
  ELSE IF a.id > 0 /\ add[i] \in failApply
    THEN ApplyFrom(i + 1, add, a, p, FALSE, failCreate, failApply)
  ELSE IF a.id > 0 /\ ~InSeq(add[i], p.labels)
    THEN ApplyFrom(i + 1, add, a,
                   [p EXCEPT !.labels = Append(p.labels, add[i])],
                   allApplied, failCreate, failApply)
  ELSE ApplyFrom(i + 1, add, a, p, allApplied, failCreate, failApply)

\* applyLabel is never reached: a created label counts as applied
syncLabels_NeverApplies(a, p, newLabels, failCreate, failApply) ==
  LET labelNamesDiff == diffLabels_(a, p, newLabels)
      fetched == IF labelNamesDiff.hasDiff /\ ~a.hasAd THEN Ad_getAd(a, p)
                 ELSE [found |-> TRUE, ad |-> a]
      applied == ApplyFrom(1, labelNamesDiff.add, fetched.ad, p, TRUE,
                           failCreate, failApply)
  IN IF Len(newLabels) <= 0 THEN [ok |-> TRUE, ad |-> a, platform |-> p]
     ELSE IF ~fetched.found THEN [ok |-> FALSE, ad |-> a, platform |-> p]
     ELSE [ok |-> applied.ok, ad |-> fetched.ad, platform |-> p]

\* Ad.prototype.syncLabels
syncLabels(a, p, newLabels, failCreate, failApply) ==
  LET labelNamesDiff == diffLabels_(a, p, newLabels)
      fetched == IF labelNamesDiff.hasDiff /\ ~a.hasAd THEN Ad_getAd(a, p)
                 ELSE [found |-> TRUE, ad |-> a]
      applied == ApplyFrom(1, labelNamesDiff.add, fetched.ad, p, TRUE,
                           failCreate, failApply)
  IN IF Len(newLabels) <= 0 THEN [ok |-> TRUE, ad |-> a, platform |-> p]
     ELSE IF ~fetched.found THEN [ok |-> FALSE, ad |-> a, platform |-> p]
     ELSE [ok |-> applied.ok, ad |-> fetched.ad, platform |-> applied.platform]

(***************************************************************************)
(* An Ad object driven call by call.                                       *)
(***************************************************************************)
LabelNames == {sAa, sBB}
LabelLists == {<< >>, <<sAa>>, <<sBB>>, <<sAa, sBB>>}
TargetLists == LabelLists \cup {<<sAaPadded>>, <<sBB, sAa>>}
StatusTargets == {sEnabled, sPaused, sPausedPadded, disabled, EMPTY}

\* an object built from a report row, from the platform's ad, or by a
\* creation in preview mode
AdObjects ==
  {Ad(FALSE, 1, st, ls) : st \in {sEnabled, sPaused, disabled},
                          ls \in LabelLists}
    \cup {Ad(TRUE, 1, EMPTY, << >>), Ad(TRUE, -1, EMPTY, << >>)}

PlatformAds ==
  {PlatformAd(TRUE, st, ls) : st \in {sEnabled, sPaused}, ls \in LabelLists}
    \cup {NoPlatformAd}

\* a report row shows the platform's ad as it is; a removed ad is not found
Consistent(a, p) ==
  /\ a.id < 0 => ~p.exists
  /\ (a.hasAd /\ a.id > 0) => p.exists
  /\ (~a.hasAd /\ p.exists) => (a.rowStatus = p.status /\ a.rowLabels = p.labels)

InitAd ==
  /\ InitSheet({BlankRow})
  /\ sync = NoSync
  /\ \E a \in AdObjects, p \in PlatformAds :
       /\ Consistent(a, p)
       /\ ad = [obj |-> a, platform |-> p, calls |-> << >>]

\* a call as it was made: before, had and toAdd are the status, the labels
\* and the names to add when it began; failed: the names to add whose
\* creation or application raises
AdCall(op, status, labels, res, called, failed) ==
  [op |-> op, status |-> status, labels |-> labels, ok |-> res.ok,
   threw |-> res.threw, called |-> called,
   before |-> getStatus(ad.obj, ad.platform).value,
   had |-> ad.platform.labels,
   toAdd |-> diffLabels_(ad.obj, ad.platform, labels).add,
   failed |-> {n \in failed :
                 InSeq(n, diffLabels_(ad.obj, ad.platform, labels).add)}]

CallSyncStatus ==
  /\ Len(ad.calls) < MaxCalls
  /\ \E status \in StatusTargets, mutationFails \in BOOLEAN :
       \E res \in {syncStatus(ad.obj, ad.platform, status, mutationFails)} :
         ad' = [obj |-> res.ad, platform |-> res.platform,
                calls |-> Append(ad.calls,
                                 AdCall("syncStatus", status, << >>, res,
                                        res.called, {}))]
  /\ UNCHANGED sheetVars
  /\ UNCHANGED sync

CallSyncLabels ==
  /\ Len(ad.calls) < MaxCalls
  /\ \E newLabels \in TargetLists, failCreate \in SUBSET LabelNames,
        failApply \in SUBSET LabelNames :
       \E res \in {syncLabels(ad.obj, ad.platform, newLabels, failCreate,
                              failApply)} :
         ad' = [obj |-> res.ad, platform |-> res.platform,
                calls |-> Append(ad.calls,
                                 AdCall("syncLabels", EMPTY, newLabels,
                                        [ok |-> res.ok, threw |-> FALSE],
                                        FALSE,
                                        failCreate \cup failApply))]
  /\ UNCHANGED sheetVars
  /\ UNCHANGED sync

NextAd == CallSyncStatus \/ CallSyncLabels

SpecAd == InitAd /\ [][NextAd]_vars

(***************************************************************************)
(* The script: reading the cells of a row (SpreadsheetRow).                *)
(***************************************************************************)
\* CONFIG.defaultLabelName
defaultLabelName ==
  <<"e", "t", "a", "-", "u", "p", "g", "r", "a", "d", "e">>
sTwoUrls == <<"[", "\"", "A", "a", "\"", ",", "\"", "B", "B", "\"", "]">>
sFlatParams == <<"{", "\"", "a", "\"", ":", "\"", "b", "\"", "}">>
sNumberParams == <<"{", "\"", "a", "\"", ":", "7", "}">>
sBroken == <<"{">>

Digits == <<"0", "1", "2", "3", "4", "5", "6", "7", "8", "9">>
IsDigit(ch) == \E d \in 1..Len(Digits) : Digits[d] = ch
DigitValue(ch) == (CHOOSE d \in 1..Len(Digits) : Digits[d] = ch) - 1
AllDigits(s) == Len(s) > 0 /\ \A i \in 1..Len(s) : IsDigit(s[i])

\* isNaN on the text of a cell: blank converts to 0, digits to their number
isNaN(value) == ~isEmptyString(value) /\ ~AllDigits(trim(value))

RECURSIVE NumberFrom(_, _)
NumberFrom(s, acc) ==
  IF s = << >> THEN acc
  ELSE NumberFrom(Tail(s), acc * Len(Digits) + DigitValue(Head(s)))

\* Number(value) for a value that is not NaN
Number(value) == NumberFrom(trim(value), 0)

\* the text a cell shows for a number written into it
RECURSIVE NumberText(_)
NumberText(n) ==
  IF n < Len(Digits) THEN <<Digits[n + 1]>>
  ELSE Append(NumberText(n \div Len(Digits)), Digits[(n % Len(Digits)) + 1])

\* SpreadsheetRow.prototype.getNumber
getNumber(value) ==
  IF isNaN(value) THEN [threw |-> TRUE, value |-> 0]
  ELSE [threw |-> FALSE, value |-> Number(value)]

\* positions of the "," of a text of the form ["x","y"]
ArrayOfTwoSplits(s) ==
  {k \in 4..(Len(s) - 5) :
     /\ SubSeq(s, 1, 2) = <<"[", "\"">>
     /\ SubSeq(s, Len(s) - 1, Len(s)) = <<"\"", "]">>
     /\ SubSeq(s, k, k + 2) = <<"\"", ",", "\"">>
     /\ ~HasQuote(SubSeq(s, 3, k - 1))
     /\ ~HasQuote(SubSeq(s, k + 3, Len(s) - 2))}

\* SpreadsheetRow.prototype.getArray of the script: the same text as the
\* one of the spreadsheet side, here also on arrays of two strings
SpreadsheetRow_getArray(value) ==
  IF ArrayOfTwoSplits(value) # {}
  THEN LET k == CHOOSE k \in ArrayOfTwoSplits(value) : TRUE
       IN [threw |-> FALSE,
           values |-> <<SubSeq(value, 3, k - 1),
                        SubSeq(value, k + 3, Len(value) - 2)>>]
  ELSE getArray(value)

\* positions of the ":" of a text of the form {"k":v}
ObjectOfOneSplits(s) ==
  {k \in 4..(Len(s) - 2) :
     /\ SubSeq(s, 1, 2) = <<"{", "\"">>
     /\ s[Len(s)] = "}"
     /\ SubSeq(s, k - 1, k) = <<"\"", ":">>
     /\ ~HasQuote(SubSeq(s, 3, k - 2))}

\* the typeof of the value written as text v
TypeOfText(v) ==
  IF AllDigits(v) THEN "number"
  ELSE IF /\ Len(v) >= 2
          /\ v[1] = "\""
          /\ v[Len(v)] = "\""
          /\ ~HasQuote(SubSeq(v, 2, Len(v) - 1))
    THEN "string"
  ELSE "invalid"

\* JSON.parse on the texts of the model's alphabet: a number, {}, an object
\* of one key whose value is a number or a string; anything else is rejected
JSONparse(text) ==
  LET out(threw, type, valueTypes) ==
        [threw |-> threw, type |-> type, valueTypes |-> valueTypes]
  IN IF AllDigits(text) THEN out(FALSE, "number", << >>)
     ELSE IF text = <<"{", "}">> THEN out(FALSE, "object", << >>)
     ELSE IF ObjectOfOneSplits(text) # {}
       THEN LET k == CHOOSE k \in ObjectOfOneSplits(text) : TRUE
                type == TypeOfText(SubSeq(text, k + 1, Len(text) - 1))
            IN IF type = "invalid" THEN out(TRUE, "null", << >>)
               ELSE out(FALSE, "object", <<type>>)
     ELSE out(TRUE, "null", << >>)

JSONnull == [threw |-> FALSE, type |-> "null", valueTypes |-> << >>]

\* isValidParamsObject(obj, ['string'], false)
isValidParamsObject(obj) ==
  IF obj.type = "null" THEN TRUE
  ELSE IF obj.type # "object" THEN FALSE
  ELSE \A i \in 1..Len(obj.valueTypes) : obj.valueTypes[i] = "string"

(***************************************************************************)
(* AdChange: the record of the changes made to one ad.  A value of the     *)
(* script is null, undefined, a number, a string, an object or an array;   *)
(* objects and arrays have an identity (id), the others have id 0.         *)
(***************************************************************************)
JsNull == [kind |-> "null", id |-> 0, val |-> << >>]
JsUndefined == [kind |-> "undefined", id |-> 0, val |-> << >>]
JsNumber(n) == [kind |-> "number", id |-> 0, val |-> <<n>>]
JsString(str) == [kind |-> "string", id |-> 0, val |-> str]
JsObject(id) == [kind |-> "object", id |-> id, val |-> << >>]
JsArray(id, items) == [kind |-> "array", id |-> id, val |-> items]

\* a === b
StrictEquals(a, b) ==
  /\ a.kind = b.kind
  /\ CASE a.kind \in {"null", "undefined"} -> TRUE
       [] a.kind \in {"number", "string"} -> a.val = b.val
       [] OTHER -> a.id = b.id

\* !a
Falsy(a) ==
  \/ a.kind \in {"null", "undefined"}
  \/ a.kind = "string" /\ a.val = << >>
  \/ a.kind = "number" /\ a.val = <<0>>

\* a == null
IsNullish(a) == a.kind \in {"null", "undefined"}

\* the test of condition 2 is dropped
isArrayShallowEquals_NoNullCase(a, b) ==
  IF (Falsy(a) /\ ~Falsy(b)) \/ (Falsy(b) /\ ~Falsy(a)) THEN FALSE
  ELSE IF FALSE THEN TRUE
  ELSE IF a.kind # "array" \/ b.kind # "array" THEN FALSE
  ELSE IF Len(a.val) # Len(b.val) THEN FALSE
  ELSE \A i \in 1..Len(a.val) : StrictEquals(a.val[i], b.val[i])

\* isArrayShallowEquals
isArrayShallowEquals(a, b) ==
  IF (Falsy(a) /\ ~Falsy(b)) \/ (Falsy(b) /\ ~Falsy(a)) THEN FALSE
  ELSE IF IsNullish(a) /\ IsNullish(b) THEN TRUE
  ELSE IF a.kind # "array" \/ b.kind # "array" THEN FALSE
  ELSE IF Len(a.val) # Len(b.val) THEN FALSE
  ELSE \A i \in 1..Len(a.val) : StrictEquals(a.val[i], b.val[i])

\* new AdChange(adId, adGroupId)
AdChange(adId, adGroupId) ==
  [adId |-> IF ~IsNullish(adId) /\ ~IsNullish(adGroupId) THEN adId
            ELSE JsNull,
   adGroupId |-> IF ~IsNullish(adId) /\ ~IsNullish(adGroupId) THEN adGroupId
                 ELSE JsNull,
   created |-> FALSE,
   changes |-> << >>]

\* AdChange.prototype.trackChange
trackChange(structure, fieldName, oldValue, newValue) ==
  IF StrictEquals(oldValue, newValue)
     \/ isArrayShallowEquals(oldValue, newValue)
  THEN structure
  ELSE [structure EXCEPT
          !.changes = Append(@, [fieldName |-> fieldName,
                                 oldValue |-> oldValue,
                                 newValue |-> newValue])]

\* AdChange.prototype.trackCreate
trackCreate(structure, adId, adGroupId) ==
  [structure EXCEPT !.created = TRUE, !.adId = adId,
                    !.adGroupId = adGroupId]

\* the number a cell holds, for the record of the changes; a cell without a
\* number raises before any change is tracked
CellNumber(cell) ==
  IF getNumber(cell).threw THEN JsNull ELSE JsNumber(getNumber(cell).value)

\* ad.getLabels() as the array the script holds
CurrentLabelsArray(names) ==
  JsArray(1, [i \in 1..Len(names) |-> JsString(names[i])])

\* getLabelsToApply's result as the array the script holds
LabelNamesArray(names) ==
  JsArray(2, [i \in 1..Len(names) |-> JsString(names[i])])

\* syncSpreadsheet, 1453-1457: the records of the changes of the row's STA
\* and ETA start empty, and no remote call was made for the row
NoChangesYet(rw) ==
  [rw EXCEPT !.remote = {},
             !.etaChanges = AdChange(CellNumber(rw.cells.etaId),
                                     CellNumber(rw.cells.adGroupId)),
             !.staChanges = AdChange(CellNumber(rw.cells.staId),
                                     CellNumber(rw.cells.adGroupId))]

\* a remote mutation of the field was carried out for the row's ad
Remote(rw, adType, fieldName, performed) ==
  IF performed
  THEN [rw EXCEPT !.remote = @ \cup {[adType |-> adType,
                                      fieldName |-> fieldName]}]
  ELSE rw

(***************************************************************************)
(* The script: one row under reconciliation.  rw holds the row's cells,    *)
(* the platform's STA and ETA of the row, the number of ETAs the platform  *)
(* created for the row, hasErrors_, the number of markAsError calls, and   *)
(* the sub-steps made so far.                                              *)
(***************************************************************************)
NoObject == [null |-> TRUE]
\* isEmpty(obj)
isEmpty(obj) == "null" \in DOMAIN obj

Event(step, ok) == [step |-> step, ok |-> ok]
Logged(rw, step, ok) == [rw EXCEPT !.log = Append(@, Event(step, ok))]

\* SpreadsheetRow.prototype.markAsError: the row turns red and the messages
\* are appended to the errorMessage cell
markAsError(rw, messages) ==
  [rw EXCEPT !.cells.red = TRUE,
             !.cells.errorMessage = @ \o messages,
             !.hasErrors = TRUE,
             !.marks = @ + 1]

\* SpreadsheetRow.prototype.markAsResolved
markAsResolved(rw) ==
  [rw EXCEPT !.cells.red = FALSE, !.cells.errorMessage = << >>]

\* the outcome of a function on a row: it raised, or it returned errorCount
Outcome(raised, errorCount, rw) ==
  [raised |-> raised, errorCount |-> errorCount, rw |-> rw]

\* new Ad(row, rowFields): the report shows the platform's ad
ReportAd(id, p) == Ad(FALSE, id, p.status, p.labels)

\* getAd([adGroupId, adId]) under the try of getAdFromRow
getAdFromRow(adGroupId, adId, p) ==
  IF isEmptyString(adGroupId) \/ isEmptyString(adId) THEN NoObject
  ELSE IF p.exists /\ ~isNaN(adId) THEN Ad(TRUE, Number(adId), EMPTY, << >>)
  ELSE NoObject

\* getLabelsToApply
getLabelsToApply(labelsCell, defaultLabel) ==
  LET labelNames == SpreadsheetRow_getArray(labelsCell)
  IN IF labelNames.threw THEN labelNames
     ELSE IF InSeq(defaultLabel, labelNames.values) THEN labelNames
     ELSE [labelNames EXCEPT !.values = Append(@, defaultLabel)]

\* parseETA
parseETA(c) ==
  LET customParameters == IF c.customParameters # EMPTY
                          THEN JSONparse(c.customParameters) ELSE JSONnull
      finalURLs == SpreadsheetRow_getArray(c.finalUrl)
      mobileFinalURLs == SpreadsheetRow_getArray(c.mobileFinalUrl)
  IN [threw |-> \/ customParameters.threw
                \/ getNumber(c.campaignId).threw
                \/ getNumber(c.adGroupId).threw
                \/ finalURLs.threw
                \/ mobileFinalURLs.threw,
      finalURLs |-> finalURLs.values,
      headline1 |-> c.headline1,
      headline2 |-> c.headline2,
      description |-> c.description,
      path1 |-> c.path1,
      path2 |-> c.path2,
      mobileFinalURLs |-> mobileFinalURLs.values,
      customParameters |-> customParameters]

When(cond, message) == IF cond THEN <<message>> ELSE << >>

\* isValidForETACreation: the errors it accumulates
isValidForETACreation(etaObj) ==
  When(Len(etaObj.finalURLs) < 1, "finalUrl is missing")
    \o When(Len(etaObj.finalURLs) > 1, "finalUrl supports only a single URL")
    \o When(etaObj.headline1 = EMPTY, "headline1 is missing")
    \o When(etaObj.headline2 = EMPTY, "headline2 is missing")
    \o When(etaObj.description = EMPTY, "description is missing")
    \o When(etaObj.path2 # EMPTY /\ etaObj.path1 = EMPTY, "path1 is missing")
    \o When(Len(etaObj.mobileFinalURLs) > 1,
            "mobileFinalURL supports only a single URL")
    \o When(~isValidParamsObject(etaObj.customParameters),
            "customParameters is not a valid parameters object")

\* createETA; env: what the platform does during the call.  next() on an
\* iterator without elements either raises or returns nothing.
\* built: build() was called; created: it returned an ad
createETA(c, env) ==
  LET out(raised, built, created, errors) ==
        [raised |-> raised, built |-> built, created |-> created,
         errors |-> errors]
      etaObj == parseETA(c)
      errors == isValidForETACreation(etaObj)
                  \o When("noCampaign" \in env,
                          "Campaign parent no longer exists")
                  \o When("noAdGroup" \in env,
                          "AdGroup parent no longer exists")
  IN IF etaObj.threw
     THEN out(FALSE, FALSE, FALSE, <<"Failed to create ETA: undefined">>)
     ELSE IF "noAdGroup" \in env /\ "nextRaises" \in env
       THEN out(TRUE, FALSE, FALSE, errors)
     ELSE IF errors # << >> THEN out(FALSE, FALSE, FALSE, errors)
     ELSE IF "buildFails" \in env
       THEN out(FALSE, TRUE, FALSE, <<"Failed to create ETA with errors">>)
     ELSE out(FALSE, TRUE, TRUE, << >>)

\* the names whose creation fails during a label sync
FailedLabels(env, fault) ==
  IF fault \in env THEN LabelNames \cup {defaultLabelName} ELSE {}

\* the id the platform gives to the ad it creates for the row
NewAdId(created) == created + 1

\* a blank etaStatus is left blank
WriteBack_KeepsBlank(rw, id, preview) ==
  IF preview THEN rw
  ELSE LET withId == Logged([rw EXCEPT !.cells.etaId = NumberText(id)],
                            "setEtaId", TRUE)
       IN IF FALSE
          THEN Logged([withId EXCEPT !.cells.etaStatus = sPaused],
                      "setEtaStatus", TRUE)
          ELSE withId

\* syncETA, 1655-1662: outside preview mode the id is written to the row and
\* a blank etaStatus becomes 'paused'
WriteBack(rw, id, preview) ==
  IF preview THEN rw
  ELSE LET withId == Logged([rw EXCEPT !.cells.etaId = NumberText(id)],
                            "setEtaId", TRUE)
       IN IF isEmptyString(withId.cells.etaStatus)
          THEN Logged([withId EXCEPT !.cells.etaStatus = sPaused],
                      "setEtaStatus", TRUE)
          ELSE withId

\* syncETA, 1664-1671 and 1719-1727: the label sync of the ETA
SyncEtaLabels(rw, eta, oldLabels, labelNames, env) ==
  LET res == syncLabels(eta, rw.eta, labelNames,
                        FailedLabels(env, "etaLabelsFail"), {})
      synced == Remote(Logged([rw EXCEPT !.eta = res.platform],
                              "etaLabels", res.ok),
                       "eta", "labels", res.platform # rw.eta)
  IN [ad |-> res.ad,
      errorCount |-> IF res.ok THEN 0 ELSE 1,
      rw |-> IF res.ok
             THEN [synced EXCEPT
                     !.etaChanges = trackChange(@, "labels", oldLabels,
                                                LabelNamesArray(labelNames))]
             ELSE markAsError(synced, <<"Error applying labels on ETA">>)]

\* syncETA, 1651-1681: a new ETA was created
AfterCreate(rw, labelNames, env, preview) ==
  LET id == IF preview THEN -1 ELSE NewAdId(rw.created)
      eta == Ad(TRUE, id, EMPTY, << >>)
      made == IF preview THEN rw
              ELSE [rw EXCEPT !.eta = PlatformAd(TRUE, sEnabled, << >>),
                              !.created = @ + 1]
      tracked == [made EXCEPT
                    !.etaChanges = trackCreate(@, JsNumber(id),
                                               CellNumber(rw.cells.adGroupId))]
      written == WriteBack(Logged(tracked, "create", TRUE), id, preview)
      labels == SyncEtaLabels(written, eta, JsString(EMPTY), labelNames, env)
      status == syncStatus(labels.ad, labels.rw.eta, labels.rw.cells.etaStatus,
                           "etaStatusFails" \in env)
      synced == Remote(Logged([labels.rw EXCEPT !.eta = status.platform],
                              "etaStatus", status.ok),
                       "eta", "status", status.called)
  IN IF status.threw THEN Outcome(TRUE, labels.errorCount, labels.rw)
     ELSE IF status.ok
       THEN Outcome(FALSE, labels.errorCount,
                    [synced EXCEPT
                       !.etaChanges =
                         trackChange(@, "status", JsString(EMPTY),
                                     JsString(labels.rw.cells.etaStatus))])
     ELSE Outcome(FALSE, labels.errorCount + 1,
                  markAsError(synced, <<"Error syncing status for ETA">>))

\* syncETA, 1638-1681: the row is ready and has no ETA id
ReadyBranch(rw, labelNames, env, preview) ==
  LET result == createETA(rw.cells, env)
      tried == [rw EXCEPT !.built = @ \/ result.built]
  IN IF result.raised THEN Outcome(TRUE, 0, tried)
     ELSE IF ~result.created
       THEN Outcome(FALSE, 1,
                    markAsError(Logged(tried, "create", FALSE),
                                IF Len(result.errors) > 0 THEN result.errors
                                ELSE <<"Error creating new ETA">>))
     ELSE AfterCreate(tried, labelNames, env, preview)

\* syncETA, 1682-1730: the row has an ETA id
ExistingBranch(rw, eta, labelNames, env) ==
  LET fetched == IF isEmpty(eta)
                 THEN getAdFromRow(rw.cells.adGroupId, rw.cells.etaId, rw.eta)
                 ELSE eta
      spreadsheetETAStatus == rw.cells.etaStatus
      status == syncStatus(fetched, rw.eta, spreadsheetETAStatus,
                           "etaStatusFails" \in env)
      currentStatus == getStatus(fetched, rw.eta).value
      called == Remote(Logged([rw EXCEPT !.eta = status.platform],
                              "etaStatus", status.ok),
                       "eta", "status", status.called)
      synced == IF status.ok
                THEN [called EXCEPT
                        !.etaChanges =
                          trackChange(@, "status", JsString(currentStatus),
                                      JsString(spreadsheetETAStatus))]
                ELSE called
      currentLabels == CurrentLabelsArray(getLabels(status.ad, synced.eta))
      labels == SyncEtaLabels(synced, status.ad, currentLabels, labelNames,
                              env)
  IN IF isEmpty(fetched)
     THEN Outcome(FALSE, 1,
                  markAsError(Logged(rw, "etaRetrieve", FALSE),
                              <<"Error retrieving ETA">>))
     ELSE IF status.threw THEN Outcome(TRUE, 0, rw)
     ELSE IF spreadsheetETAStatus # disabled
       THEN Outcome(FALSE, labels.errorCount, labels.rw)
     ELSE Outcome(FALSE, 0, synced)

\* a ready row is created whether or not it has an ETA id
syncETA_IgnoresEtaId(rw, eta, env, preview) ==
  LET labelNames == getLabelsToApply(rw.cells.labels, defaultLabelName)
      ready == toLowerCase(trim(rw.cells.readyToUpload)) = sYes
      etaId == getNumber(rw.cells.etaId)
  IN IF labelNames.threw THEN Outcome(TRUE, 0, rw)
     ELSE IF etaId.threw THEN Outcome(TRUE, 0, rw)
     ELSE IF ready /\ TRUE
       THEN ReadyBranch(rw, labelNames.values, env, preview)
     ELSE IF etaId.value # 0
       THEN ExistingBranch(rw, eta, labelNames.values, env)
     ELSE Outcome(FALSE, 0, rw)

\* syncETA
syncETA(rw, eta, env, preview) ==
  LET labelNames == getLabelsToApply(rw.cells.labels, defaultLabelName)
      ready == toLowerCase(trim(rw.cells.readyToUpload)) = sYes
      etaId == getNumber(rw.cells.etaId)
  IN IF labelNames.threw THEN Outcome(TRUE, 0, rw)
     ELSE IF etaId.threw THEN Outcome(TRUE, 0, rw)
     ELSE IF ready /\ etaId.value = 0
       THEN ReadyBranch(rw, labelNames.values, env, preview)
     ELSE IF etaId.value # 0
       THEN ExistingBranch(rw, eta, labelNames.values, env)
     ELSE Outcome(FALSE, 0, rw)

\* syncSTA, 1574-1590: the status sync of the STA
SyncStaStatus(rw, sta, env) ==
  LET oldStatus == getStatus(sta, rw.sta).value
      spreadsheetSTAStatus == rw.cells.staStatus
      hasNewStatus == oldStatus # spreadsheetSTAStatus
      res == syncStatus(sta, rw.sta, spreadsheetSTAStatus,
                        "staStatusFails" \in env)
      synced == Remote(Logged([rw EXCEPT !.sta = res.platform],
                              "staStatus", res.ok),
                       "sta", "staStatus", res.called)
  IN IF ~hasNewStatus THEN [threw |-> FALSE, ad |-> sta, errorCount |-> 0,
                            rw |-> rw]
     ELSE IF res.threw THEN [threw |-> TRUE, ad |-> sta, errorCount |-> 0,
                             rw |-> rw]
     ELSE IF res.ok
       THEN [threw |-> FALSE, ad |-> res.ad, errorCount |-> 0,
             rw |-> [synced EXCEPT
                       !.staChanges =
                         trackChange(@, "staStatus", JsString(oldStatus),
                                     JsString(spreadsheetSTAStatus))]]
     ELSE [threw |-> FALSE, ad |-> res.ad, errorCount |-> 1,
           rw |-> markAsError(synced, <<"Error syncing status for STA">>)]

\* the labels are synced whatever the staStatus cell holds
syncSTA_LabelsWhenDisabled(rw, sta, env) ==
  LET labelNames == getLabelsToApply(rw.cells.labels, defaultLabelName)
      etaId == getNumber(rw.cells.etaId)
      status == SyncStaStatus(rw, sta, env)
      res == syncLabels(status.ad, status.rw.sta, labelNames.values,
                        FailedLabels(env, "staLabelsFail"), {})
      currentLabels == CurrentLabelsArray(getLabels(status.ad, status.rw.sta))
      synced == Remote(Logged([status.rw EXCEPT !.sta = res.platform],
                              "staLabels", res.ok),
                       "sta", "labels", res.platform # status.rw.sta)
  IN IF labelNames.threw THEN Outcome(TRUE, 0, rw)
     ELSE IF isEmpty(sta) \/ isEmptyString(rw.cells.etaId)
       THEN Outcome(FALSE, 0, rw)
     ELSE IF etaId.threw THEN Outcome(TRUE, 0, rw)
     ELSE IF etaId.value = 0 THEN Outcome(FALSE, 0, rw)
     ELSE IF status.threw THEN Outcome(TRUE, 0, rw)
     ELSE IF \/ FALSE
             \/ getStatus(status.ad, status.rw.sta).value = disabled
       THEN Outcome(FALSE, status.errorCount, status.rw)
     ELSE IF res.ok
       THEN Outcome(FALSE, status.errorCount,
                    [synced EXCEPT
                       !.staChanges =
                         trackChange(@, "labels", currentLabels,
                                     LabelNamesArray(labelNames.values))])
     ELSE Outcome(FALSE, status.errorCount + 1,
                  markAsError(synced, <<"Error applying labels on STA">>))

\* syncSTA
syncSTA(rw, sta, env) ==
  LET labelNames == getLabelsToApply(rw.cells.labels, defaultLabelName)
      etaId == getNumber(rw.cells.etaId)
      status == SyncStaStatus(rw, sta, env)
      res == syncLabels(status.ad, status.rw.sta, labelNames.values,
                        FailedLabels(env, "staLabelsFail"), {})
      currentLabels == CurrentLabelsArray(getLabels(status.ad, status.rw.sta))
      synced == Remote(Logged([status.rw EXCEPT !.sta = res.platform],
                              "staLabels", res.ok),
                       "sta", "labels", res.platform # status.rw.sta)
  IN IF labelNames.threw THEN Outcome(TRUE, 0, rw)
     ELSE IF isEmpty(sta) \/ isEmptyString(rw.cells.etaId)
       THEN Outcome(FALSE, 0, rw)
     ELSE IF etaId.threw THEN Outcome(TRUE, 0, rw)
     ELSE IF etaId.value = 0 THEN Outcome(FALSE, 0, rw)
     ELSE IF status.threw THEN Outcome(TRUE, 0, rw)
     ELSE IF \/ rw.cells.staStatus = disabled
             \/ getStatus(status.ad, status.rw.sta).value = disabled
       THEN Outcome(FALSE, status.errorCount, status.rw)
     ELSE IF res.ok
       THEN Outcome(FALSE, status.errorCount,
                    [synced EXCEPT
                       !.staChanges =
                         trackChange(@, "labels", currentLabels,
                                     LabelNamesArray(labelNames.values))])
     ELSE Outcome(FALSE, status.errorCount + 1,
                  markAsError(synced, <<"Error applying labels on STA">>))

(***************************************************************************)
(* syncETA and syncSTA driven call by call on one row.                     *)
(***************************************************************************)
\* a row that is ready for the creation of its ETA
ReadyCells ==
  [staId |-> sId, etaId |-> EMPTY, adGroupId |-> sId, campaignId |-> sId,
   readyToUpload |-> sYes, staStatus |-> sEnabled, etaStatus |-> sPaused,
   labels |-> EMPTY, finalUrl |-> sAa, mobileFinalUrl |-> EMPTY,
   headline1 |-> sAa, headline2 |-> sAa, description |-> sAa,
   path1 |-> EMPTY, path2 |-> EMPTY, customParameters |-> EMPTY,
   errorMessage |-> << >>, red |-> FALSE]

\* rows without an ETA id
NewCells ==
  {ReadyCells,
   [ReadyCells EXCEPT !.readyToUpload = sYesPadded, !.labels = sAa,
                      !.etaStatus = sEnabled, !.path1 = sAa, !.path2 = sAa,
                      !.customParameters = sFlatParams],
   [ReadyCells EXCEPT !.etaStatus = EMPTY],
   [ReadyCells EXCEPT !.headline2 = EMPTY],
   [ReadyCells EXCEPT !.finalUrl = sTwoUrls, !.path2 = sAa],
   [ReadyCells EXCEPT !.finalUrl = EMPTY, !.headline1 = EMPTY,
                      !.description = EMPTY],
   [ReadyCells EXCEPT !.mobileFinalUrl = sTwoUrls],
   [ReadyCells EXCEPT !.customParameters = sNumberParams],
   [ReadyCells EXCEPT !.customParameters = sBroken],
   [ReadyCells EXCEPT !.labels = sId],
   [ReadyCells EXCEPT !.etaId = sAa],
   [ReadyCells EXCEPT !.readyToUpload = sNo]}

\* rows whose ETA was created by an earlier run
CreatedCells ==
  {[ReadyCells EXCEPT !.etaId = NumberText(NewAdId(0))],
   [ReadyCells EXCEPT !.etaId = NumberText(NewAdId(0)),
                      !.staStatus = sPaused, !.etaStatus = sEnabled,
                      !.labels = sAa],
   [ReadyCells EXCEPT !.etaId = NumberText(NewAdId(0)),
                      !.staStatus = disabled, !.etaStatus = disabled]}

RowUnderSync(c, sta, eta) ==
  [cells |-> c, sta |-> sta, eta |-> eta, created |-> 0,
   hasErrors |-> FALSE, marks |-> 0, log |-> << >>, built |-> FALSE,
   remote |-> {},
   etaChanges |-> AdChange(CellNumber(c.etaId), CellNumber(c.adGroupId)),
   staChanges |-> AdChange(CellNumber(c.staId), CellNumber(c.adGroupId))]

StaOnPlatform == {PlatformAd(TRUE, sEnabled, << >>), NoPlatformAd}
EtaOnPlatform ==
  {PlatformAd(TRUE, sEnabled, << >>), PlatformAd(TRUE, sPaused, <<sAa>>),
   NoPlatformAd}

RowsUnderSync ==
  {RowUnderSync(c, sta, NoPlatformAd) : c \in NewCells, sta \in StaOnPlatform}
    \cup {RowUnderSync(c, sta, eta) :
            c \in CreatedCells, sta \in StaOnPlatform, eta \in EtaOnPlatform}

\* what the platform may do wrong during one call: at most two of these
Faults ==
  {"noCampaign", "noAdGroup", "nextRaises", "buildFails", "etaLabelsFail",
   "etaStatusFails", "staLabelsFail", "staStatusFails"}
Envs == {{}} \cup {{a, b} : a \in Faults, b \in Faults}

InitRow ==
  /\ InitSheet({BlankRow})
  /\ ad = NoAd
  /\ \E preview \in BOOLEAN, rw \in RowsUnderSync :
       sync = [preview |-> preview, rw |-> rw, calls |-> << >>]

\* the object the pass hands over for an ad: the report's when the ad is in
\* the report, else none
FromReport(inReport, idCell, p) ==
  IF inReport /\ p.exists /\ ~isNaN(idCell) /\ ~isEmptyString(idCell)
  THEN ReportAd(Number(idCell), p) ELSE NoObject

\* the row as a call finds it: nothing logged yet
AtCall(rw) == NoChangesYet([rw EXCEPT !.log = << >>, !.built = FALSE])

\* both parents of the new ad are on the platform during the call
ParentsExist(env) == "noCampaign" \notin env /\ "noAdGroup" \notin env

RowCall(op, env, res) ==
  [op |-> op, parents |-> ParentsExist(env), raised |-> res.raised,
   errorCount |-> res.errorCount, pre |-> AtCall(sync.rw)]

CallSyncETA ==
  /\ Len(sync.calls) < MaxCalls
  /\ \E env \in Envs, inReport \in BOOLEAN :
       \E res \in {syncETA(AtCall(sync.rw),
                           FromReport(inReport, sync.rw.cells.etaId,
                                      sync.rw.eta),
                           env, sync.preview)} :
         sync' = [sync EXCEPT !.rw = res.rw,
                              !.calls = Append(@, RowCall("syncETA", env,
                                                          res))]
  /\ UNCHANGED sheetVars
  /\ UNCHANGED ad

\* the STA handed over is the report's or, failing that, the one
\* getAdFromRow finds
CallSyncSTA ==
  /\ Len(sync.calls) < MaxCalls
  /\ \E env \in Envs, inReport \in BOOLEAN :
       \E reported \in {FromReport(inReport, sync.rw.cells.staId,
                                   sync.rw.sta)} :
         \E res \in {syncSTA(AtCall(sync.rw),
                             IF isEmpty(reported)
                             THEN getAdFromRow(sync.rw.cells.adGroupId,
                                               sync.rw.cells.staId,
                                               sync.rw.sta)
                             ELSE reported,
                             env)} :
           sync' = [sync EXCEPT !.rw = res.rw,
                                !.calls = Append(@, RowCall("syncSTA", env,
                                                            res))]
  /\ UNCHANGED sheetVars
  /\ UNCHANGED ad

NextRow == CallSyncETA \/ CallSyncSTA

SpecRow == InitRow /\ [][NextRow]_vars

(***************************************************************************)
(* A pass of syncSpreadsheet over the rows of the sheet.                   *)
(***************************************************************************)
SyncRows == 1..NumSyncRows

\* isSupportedStatus
isSupportedStatus(status) == status = sEnabled \/ status = sPaused

\* SpreadsheetRow.prototype.validateValues_
validateValues_(rw) ==
  LET sta == IF isSupportedStatus(rw.cells.staStatus) THEN rw
             ELSE markAsError(rw, <<"Unsuported STA status">>)
  IN IF isSupportedStatus(sta.cells.etaStatus) THEN sta
     ELSE markAsError(sta, <<"Unsuported ETA status">>)

\* the error mark of an earlier pass is kept
SpreadsheetRow_KeepsErrors(rw) ==
  validateValues_(NoChangesYet([rw EXCEPT !.hasErrors = FALSE,
                                          !.marks = 0,
                                          !.log = << >>,
                                          !.built = FALSE]))

\* new SpreadsheetRow: the error mark of an earlier pass is removed, then
\* the statuses are validated
SpreadsheetRow(rw) ==
  validateValues_(markAsResolved(NoChangesYet([rw EXCEPT
                                                 !.hasErrors = FALSE,
                                                 !.marks = 0,
                                                 !.log = << >>,
                                                 !.built = FALSE])))

\* getContentRows with isValidOnly: the rows without errors, in sheet order
RECURSIVE ValidRowsFrom(_, _)
ValidRowsFrom(r, rows) ==
  IF r > Len(rows) THEN << >>
  ELSE IF rows[r].hasErrors THEN ValidRowsFrom(r + 1, rows)
  ELSE <<r>> \o ValidRowsFrom(r + 1, rows)

\* syncSpreadsheet, 1469-1481: the STA of the row, from the report or else
\* from the platform
ResolveSta(rw, inReport) ==
  LET reported == FromReport(inReport, rw.cells.staId, rw.sta)
      sta == IF isEmpty(reported)
             THEN getAdFromRow(rw.cells.adGroupId, rw.cells.staId, rw.sta)
             ELSE reported
  IN [sta |-> sta,
      errorCount |-> IF isEmpty(sta) THEN 1 ELSE 0,
      rw |-> IF isEmpty(sta)
             THEN markAsError(Logged(rw, "staRetrieve", FALSE),
                              <<"Error retrieving STA">>)
             ELSE rw]

\* the count of syncSTA is left out of the sum
ReconcileRowOf_DropsStaCount(rw, resolved, eta, sta) ==
  IF \/ getNumber(rw.cells.staId).threw
     \/ getNumber(rw.cells.adGroupId).threw
     \/ getNumber(rw.cells.etaId).threw
  THEN Outcome(TRUE, 0, rw)
  ELSE IF eta.raised THEN Outcome(TRUE, 0, eta.rw)
  ELSE IF sta.raised THEN Outcome(TRUE, 0, sta.rw)
  ELSE Outcome(FALSE,
               resolved.errorCount + eta.errorCount,
               sta.rw)

\* syncSpreadsheet, 1445-1485: the callback of forEach on one row, given
\* what the retrieval of the STA, syncETA and syncSTA do; an exception of a
\* step ends the callback there
ReconcileRowOf(rw, resolved, eta, sta) ==
  IF \/ getNumber(rw.cells.staId).threw
     \/ getNumber(rw.cells.adGroupId).threw
     \/ getNumber(rw.cells.etaId).threw
  THEN Outcome(TRUE, 0, rw)
  ELSE IF eta.raised THEN Outcome(TRUE, 0, eta.rw)
  ELSE IF sta.raised THEN Outcome(TRUE, 0, sta.rw)
  ELSE Outcome(FALSE,
               resolved.errorCount + eta.errorCount + sta.errorCount,
               sta.rw)

\* the rows of the sheet when the script first runs
SheetCells ==
  {ReadyCells,
   [ReadyCells EXCEPT !.headline2 = EMPTY],
   [ReadyCells EXCEPT !.labels = sId],
   [ReadyCells EXCEPT !.etaId = sAa],
   [ReadyCells EXCEPT !.etaStatus = EMPTY],
   [ReadyCells EXCEPT !.staStatus = disabled],
   [ReadyCells EXCEPT !.staStatus = sPaused, !.labels = sAa]}

SheetRows ==
  {RowUnderSync(c, PlatformAd(TRUE, sEnabled, << >>), NoPlatformAd) :
     c \in SheetCells}

\* what fails on the platform while one row is reconciled
SyncEnvs ==
  {{}, {"noAdGroup", "nextRaises"}, {"buildFails"}, {"etaLabelsFail"},
   {"etaStatusFails"}, {"staStatusFails"},
   {"etaLabelsFail", "staLabelsFail"}}

\* the pass that ended returned without a failure: nothing counted, no row
\* left out or marked, no sub-step of a row failed
CleanPass(done) ==
  /\ done.passes > 0
  /\ done.pc = "idle"
  /\ done.outcome = "returned"
  /\ ~done.reportFailed
  /\ done.errorCount = 0
  /\ \A r \in SyncRows :
       /\ ~done.rows[r].hasErrors
       /\ done.pass[r].visited
       /\ \A i \in DOMAIN done.rows[r].log : done.rows[r].log[i].ok

\* what a pass knows of a row: whether the callback reached it, and the row
\* as the pass found it after validation
\* carried: the row had an error mark when the pass read it
NotReached(rw, old) ==
  [visited |-> FALSE, pre |-> rw, carried |-> old.cells.red]

InitSync ==
  /\ InitSheet({BlankRow})
  /\ ad = NoAd
  /\ \E preview \in BOOLEAN, rows \in [SyncRows -> SheetRows] :
       sync = [preview |-> preview, rows |-> rows, pc |-> "idle",
               queue |-> << >>, errorCount |-> 0, outcome |-> "none",
               reportFailed |-> FALSE, passes |-> 0, prevClean |-> FALSE,
               pass |-> [r \in SyncRows |-> NotReached(rows[r], rows[r])]]

\* syncSpreadsheet, 1426-1443: getReportWithSpreadsheetRows builds the rows,
\* keeps the valid ones and reads the reports; when it raises, the pass has
\* no rows and one error
StartPass ==
  /\ sync.pc = "idle"
  /\ sync.passes < MaxPasses
  /\ \E reportFails \in BOOLEAN :
       LET rows == [r \in SyncRows |-> SpreadsheetRow(sync.rows[r])]
       IN sync' = [sync EXCEPT
                     !.rows = rows,
                     !.pc = "rows",
                     !.queue = IF reportFails THEN << >>
                               ELSE ValidRowsFrom(1, rows),
                     !.errorCount = IF reportFails THEN 1 ELSE 0,
                     !.reportFailed = reportFails,
                     !.outcome = "none",
                     !.passes = @ + 1,
                     !.prevClean = CleanPass(sync),
                     !.pass = [r \in SyncRows |->
                                NotReached(rows[r], sync.rows[r])]]
  /\ UNCHANGED sheetVars
  /\ UNCHANGED ad

\* one call of the forEach callback; an exception leaves syncSpreadsheet
ReconcileRow ==
  /\ sync.pc = "rows"
  /\ sync.queue # << >>
  /\ \E env \in SyncEnvs, staInReport \in BOOLEAN, etaInReport \in BOOLEAN :
       LET r == Head(sync.queue)
           rw == sync.rows[r]
       IN \E resolved \in {ResolveSta(rw, staInReport)} :
          \E eta \in {syncETA(resolved.rw,
                               FromReport(etaInReport, rw.cells.etaId, rw.eta),
                               env, sync.preview)} :
          \E sta \in {syncSTA(eta.rw, resolved.sta, env)} :
          \E res \in {ReconcileRowOf(rw, resolved, eta, sta)} :
            sync' = [sync EXCEPT
                       !.rows[r] = res.rw,
                       !.pass[r].visited = TRUE,
                       !.queue = Tail(@),
                       !.errorCount = @ + res.errorCount,
                       !.pc = IF res.raised THEN "idle" ELSE @,
                       !.outcome = IF res.raised THEN "raised" ELSE @]
  /\ UNCHANGED sheetVars
  /\ UNCHANGED ad

\* syncSpreadsheet, 1487-1526: the changes are printed and the error count
\* is returned
FinishPass ==
  /\ sync.pc = "rows"
  /\ sync.queue = << >>
  /\ sync' = [sync EXCEPT !.pc = "idle", !.outcome = "returned"]
  /\ UNCHANGED sheetVars
  /\ UNCHANGED ad

NextSync == StartPass \/ ReconcileRow \/ FinishPass

SpecSync == InitSync /\ [][NextSync]_vars

(***************************************************************************)
(* Properties.  A row of the list is a content row: getContentRows keeps   *)
(* the rows whose nonEmptyColumnCheck cell is not empty.                   *)
(***************************************************************************)
ContentRowSet(sheetCells) ==
  {r \in Rows : ~isEmptyString(sheetCells[r][ColumnIndex(nonEmptyColumnCheck)])}

\* the rows getValue returns, none when the bucket is null or undefined
RowsIn(index, columnKey, bucketKey) ==
  LET found == getValue(index, columnKey, bucketKey).value
  IN IF found.kind = "array" THEN found.rows ELSE << >>

\* handleLinkedRangeEdit ran for an edit from a non-empty value to a
\* different non-empty value
LinkedEdit ==
  /\ last.op = "edit"
  /\ last.linkedCalled
  /\ ~isEmptyString(last.oldValue)
  /\ ~isEmptyString(last.value)
  /\ last.oldValue # last.value

\* every content row that held the old value holds the new value
Propagated ==
  \A r \in ContentRowSet(last.pre) :
    last.pre[r][last.col] = last.oldValue => cells[r][last.col] = last.value

\* the edit follows, on the same column, a first edit after the build, and
\* starts from the value that edit wrote
FollowsFirstEdit ==
  /\ LinkedEdit
  /\ last.chainBefore = 1
  /\ last.prev.qualified
  /\ last.prev.col = last.col
  /\ last.prev.value = last.oldValue

\* C1: with linking on and the index built by linkMatchingColumns, an edit
\* old -> new (both non-empty, different) of a linked column leaves every
\* row that held old holding new, and a later edit of any of those rows from
\* new to a third value propagates to all of them again, with the rows that
\* already held new.
C1_LinkedEditPropagates ==
  /\ (LinkedEdit /\ last.chainBefore = 0) => Propagated
  /\ (FollowsFirstEdit /\ last.value # last.prev.oldValue) => Propagated

\* a transferBucket call with two different non-empty values, the first of
\* which has a bucket
TransferCall ==
  /\ last.op = "transferBucket"
  /\ last.oldValue # last.value
  /\ ~isEmptyString(last.oldValue)
  /\ ~isEmptyString(last.value)
  /\ getValue(last.preBuckets, last.col, last.oldValue).value.kind = "array"

\* getValue of the target is R1 followed by R2, and the source is empty
TransferMerged ==
  /\ ~last.threw
  /\ getValue(buckets, last.col, last.value).value
       = Arr(RowsIn(last.preBuckets, last.col, last.oldValue)
             \o RowsIn(last.preBuckets, last.col, last.value))
  /\ RowsIn(buckets, last.col, last.oldValue) = << >>

\* C2: after transferBucket(C, v1, v2) for distinct v1, v2 with buckets R1
\* and R2, getValue(C, v2) is R1 followed by R2 and getValue(C, v1) is
\* empty.
C2_TransferMerges == TransferCall => TransferMerged

\* how many times a row id occurs in the buckets of one column
Occurrences(column, r) ==
  LET hashes == {h \in DOMAIN column : column[h].kind = "array"}
  IN Cardinality({<<h, i>> \in hashes \X (1..NumRows) :
                    i <= Len(column[h].rows) /\ column[h].rows[i] = r})

AtMostOneBucket(index) ==
  \A columnKey \in DOMAIN index : \A r \in Rows :
    Occurrences(index[columnKey], r) <= 1

\* C3: after linkMatchingColumns and any handleLinkedRangeEdit calls, a row
\* id is in at most one bucket of a column, in the persisted index and in
\* the index the handler returned with.
C3_RowInOneBucket ==
  /\ storage.present => AtMostOneBucket(load_(storage))
  /\ last.op = "edit" => AtMostOneBucket(last.bucketsAtReturn)

\* an edit moved a bucket of two rows into another bucket
C3_Witness ==
  /\ LinkedEdit /\ ~last.threw
  /\ storage.present
  /\ Len(RowsIn(load_(storage), last.col, last.value)) >= 2

\* C4: after linkMatchingColumns and accepted single-cell edits of linked
\* columns with linking on, every content row whose cell in a linked column
\* holds a non-empty value v is in getValue(C, v).
C4_IndexCoversSheet ==
  chain >= 0 =>
    \A r \in ContentRowSet(cells) : \A c \in LinkedIndices :
      ~isEmptyString(cells[r][c])
        => InSeq(r, RowsIn(load_(storage), c, cells[r][c]))

\* handleLinkedRangeEdit ran for an edit that typed the value the cell held
SameValueEdit ==
  /\ last.op = "edit"
  /\ last.linkedCalled
  /\ last.value = last.oldValue

\* C5: handleLinkedRangeEdit with a new value equal to the old value changes
\* no cell and leaves the in-memory and the persisted index as they were.
C5_SameValueNoChange ==
  SameValueEdit =>
    /\ cells = last.pre
    /\ storage = last.storageAtCall
    /\ last.bucketsAtReturn = load_(last.storageAtCall)

\* a non-empty value was typed again into a cell whose bucket holds another
\* row too
C5_Witness ==
  /\ SameValueEdit
  /\ ~isEmptyString(last.value)
  /\ storage.present
  /\ Len(RowsIn(last.bucketsAtReturn, last.col, last.value)) >= 2

\* C6: for an edit classified read-only, onCellEdit restores the previous
\* value, whatever it was, and changes nothing else.
C6_ReadOnlyReverted ==
  (last.op = "edit" /\ last.stage = "readonly") =>
    /\ cells = last.pre
    /\ bg = last.preBg
    /\ storage = last.preStorage

StatusColumns == {ColumnIndex("staStatus"), ColumnIndex("etaStatus")}

\* the row of the last edit, as it was before the edit
RowBefore == last.pre[last.row]

\* C7: an edit is read-only when it targets staStatus or etaStatus with the
\* previous value 'disabled', or when the row's etaStatus read 'disabled'
\* before the edit; so a status cell reading 'disabled' is never changed by
\* a single-cell edit.
C7_DisabledIsReadOnly ==
  last.op = "edit" =>
    /\ (\/ last.col \in StatusColumns /\ last.oldValue = disabled
        \/ RowBefore[ColumnIndex("etaStatus")] = disabled)
         => last.stage = "readonly"
    /\ \A r \in Rows : \A c \in StatusColumns :
         last.pre[r][c] = disabled => cells[r][c] = disabled

\* a staStatus cell reading 'disabled', on a row whose etaStatus does not,
\* was set to another value and reads 'disabled' again
C7_Witness ==
  /\ last.op = "edit"
  /\ last.col = ColumnIndex("staStatus")
  /\ last.oldValue = disabled
  /\ last.value # disabled
  /\ RowBefore[ColumnIndex("etaStatus")] # disabled
  /\ last.stage = "readonly"
  /\ cells[last.row][last.col] = disabled

\* the edit was made on a row whose etaId is not empty
CreatedRowEdit ==
  /\ last.op = "edit"
  /\ ~isEmptyString(cells[last.row][ColumnIndex("etaId")])
  /\ ~isEmptyString(RowBefore[ColumnIndex("etaId")])

\* one of the two 'disabled' tests of isReadOnly applies to the edit
DisabledRuleApplies ==
  \/ last.col \in StatusColumns /\ last.oldValue = disabled
  \/ [RowBefore EXCEPT ![last.col] = last.value][ColumnIndex("etaStatus")]
       = disabled

\* C8 as stated: on a row with a non-empty etaId every edit of a column
\* other than etaStatus is read-only, and an edit of etaStatus is accepted
\* as long as no 'disabled' rule applies.
C8_Original ==
  CreatedRowEdit =>
    /\ last.col # ColumnIndex("etaStatus") => last.stage = "readonly"
    /\ (last.col = ColumnIndex("etaStatus") /\ ~DisabledRuleApplies)
         => last.stage # "readonly"

\* C8: on a row with a non-empty etaId every edit of a column other than
\* etaStatus and staStatus is read-only, and an edit of etaStatus or
\* staStatus is accepted as long as no 'disabled' rule applies.
C8_CreatedRowReadOnly ==
  CreatedRowEdit =>
    /\ last.col \notin StatusColumns => last.stage = "readonly"
    /\ (last.col \in StatusColumns /\ ~DisabledRuleApplies)
         => last.stage # "readonly"

\* a URL of a created row was edited and restored
C8_Witness ==
  /\ CreatedRowEdit
  /\ last.col = ColumnIndex("finalUrl")
  /\ last.value # last.oldValue
  /\ RowBefore[ColumnIndex("etaStatus")] # disabled
  /\ last.stage = "readonly"
  /\ cells = last.pre

\* an edit that was not classified read-only
AcceptedEdit == last.op = "edit" /\ last.stage # "readonly"

\* the cells of the edited row the mismatch highlighter repaints after the
\* row is staged: the compared cells, when a compared or linked column is
\* edited
Repainted ==
  IF IsMismatchColumn(last.col) \/ IsLinkedColumn(last.col)
  THEN {c \in Cols : IsMismatchColumn(c)}
  ELSE {}

\* C9: an accepted edit on a row with a non-empty error message gives the
\* row the staged highlight and leaves the error text as it was; when the
\* error message is empty the row is not marked staged.
C9_ErrorRowStaged ==
  AcceptedEdit =>
    LET errorColumn == ColumnIndex("errorMessage")
        edited == [RowBefore EXCEPT ![last.col] = last.value]
    IN IF ~isEmptyString(edited[errorColumn])
       THEN /\ \A c \in Cols \ Repainted : bg[last.row][c] = StagedColor
            /\ cells[last.row][errorColumn] = edited[errorColumn]
       ELSE \A c \in Cols \ Repainted :
              bg[last.row][c] = last.preBg[last.row][c]

\* a status of a row with an error message was edited and the whole row is
\* staged
C9_Witness ==
  /\ AcceptedEdit
  /\ last.col = ColumnIndex("staStatus")
  /\ last.value # last.oldValue
  /\ ~isEmptyString(cells[last.row][ColumnIndex("errorMessage")])
  /\ \A c \in Cols : bg[last.row][c] = StagedColor
  /\ \E c \in Cols : last.preBg[last.row][c] # StagedColor

\* the domains of the first elements of the compared fields of a row; a
\* field without a first element has none
DomainOf(sheetCells, r, c) ==
  LET parsed == getArray(sheetCells[r][c])
  IN IF parsed.threw THEN [defined |-> FALSE, domain |-> EMPTY]
     ELSE LET found == getDomain(parsed.values)
          IN IF found.threw THEN [defined |-> FALSE, domain |-> EMPTY]
             ELSE [defined |-> TRUE, domain |-> found.domain]

DomainsDiffer(sheetCells, r) ==
  \E c1, c2 \in {c \in Cols : IsMismatchColumn(c)} :
    DomainOf(sheetCells, r, c1) # DomainOf(sheetCells, r, c2)

\* C10: after linkMatchingColumns and after every handled edit of a compared
\* column, the compared cells of every content row carry the mismatch
\* colour when the domains of their first elements are not all equal, and
\* no highlight otherwise.
C10_HighlightMatchesDomains ==
  (last.op = "link" \/ (AcceptedEdit /\ IsMismatchColumn(last.col))) =>
    \A r \in ContentRowSet(cells) : \A c \in Cols :
      IsMismatchColumn(c) =>
        bg[r][c] = IF DomainsDiffer(cells, r) THEN MismatchColor ELSE NoColor

\* a compared field of the row has no first element
HasEmptyComparedField(sheetCells, r) ==
  \E c \in Cols : IsMismatchColumn(c) /\ ~DomainOf(sheetCells, r, c).defined

\* C11: when a compared field of a row is empty, highlightMismatchFields
\* sets the mismatch colour on every compared cell and does not raise, so
\* that linkMatchingColumns still indexes every row and saves the index.
C11_EmptyFieldIsMismatch ==
  (last.op = "link"
   /\ \E r \in ContentRowSet(cells) : HasEmptyComparedField(cells, r)) =>
    /\ ~last.threw
    /\ storage.present
    /\ \A r \in ContentRowSet(cells) : \A c \in Cols :
         /\ (HasEmptyComparedField(cells, r) /\ IsMismatchColumn(c))
              => bg[r][c] = MismatchColor
         /\ (IsLinkedColumn(c) /\ ~isEmptyString(cells[r][c]))
              => InSeq(r, RowsIn(load_(storage), c, cells[r][c]))

(***************************************************************************)
(* Properties of the Ad object.                                            *)
(***************************************************************************)
\* positions of a syncStatus call towards enabled or paused that is followed
\* at once by a syncStatus call with the same target
StatusCallPairs ==
  {i \in 1..(Len(ad.calls) - 1) :
     /\ ad.calls[i].op = "syncStatus"
     /\ ad.calls[i + 1].op = "syncStatus"
     /\ ad.calls[i + 1].status = ad.calls[i].status
     /\ toLowerCase(trim(ad.calls[i].status)) \in {sEnabled, sPaused}}

TwiceIsOnce(i) ==
  /\ ad.calls[i].called
       = (ad.calls[i].before # toLowerCase(trim(ad.calls[i].status)))
  /\ ad.calls[i + 1].ok
  /\ ~ad.calls[i + 1].called

LabelsSynced ==
  /\ Len(ad.calls) > 0
  /\ ad.calls[Len(ad.calls)].op = "syncLabels"
  /\ ad.calls[Len(ad.calls)].ok

DiffAfterSync ==
  diffLabels_(ad.obj, ad.platform, ad.calls[Len(ad.calls)].labels)

\* C16 as stated: after syncLabels(target) returned success,
\* diffLabels_(target) has nothing to add and nothing to remove.
C16_Original == LabelsSynced => ~DiffAfterSync.hasDiff

\* C16: after syncLabels(target) returned success on an ad with a positive
\* id, diffLabels_(target) has nothing to add.
C16_NothingLeftToAdd ==
  (LabelsSynced /\ ad.obj.id > 0) => DiffAfterSync.add = << >>

C16_Witness ==
  /\ LabelsSynced
  /\ ad.obj.id > 0
  /\ ad.calls[Len(ad.calls)].toAdd # << >>
  /\ DiffAfterSync.add = << >>
  /\ DiffAfterSync.remove # << >>

(***************************************************************************)
(* Properties of syncETA and syncSTA on one row.                           *)
(***************************************************************************)
LastRowCall == sync.calls[Len(sync.calls)]

RowCalled(op) == Len(sync.calls) > 0 /\ LastRowCall.op = op

\* the row takes the ready-to-create branch of syncETA: readyToUpload reads
\* 'yes' and the etaId cell is empty or 0
ReadyToCreate(c) ==
  /\ ~SpreadsheetRow_getArray(c.labels).threw
  /\ toLowerCase(trim(c.readyToUpload)) = sYes
  /\ ~isNaN(c.etaId)
  /\ Number(c.etaId) = 0

\* the fields of the row allow a creation
WellFormed(c) ==
  LET etaObj == parseETA(c)
  IN /\ ~etaObj.threw
     /\ Len(etaObj.finalURLs) = 1
     /\ etaObj.headline1 # EMPTY
     /\ etaObj.headline2 # EMPTY
     /\ etaObj.description # EMPTY
     /\ (etaObj.path2 # EMPTY => etaObj.path1 # EMPTY)
     /\ Len(etaObj.mobileFinalURLs) <= 1
     /\ \/ etaObj.customParameters.type = "null"
        \/ /\ etaObj.customParameters.type = "object"
           /\ \A i \in 1..Len(etaObj.customParameters.valueTypes) :
                etaObj.customParameters.valueTypes[i] = "string"

\* the messages the call appended to the errorMessage cell
NewMessages ==
  SubSeq(sync.rw.cells.errorMessage,
         Len(LastRowCall.pre.cells.errorMessage) + 1,
         Len(sync.rw.cells.errorMessage))

\* C12: in the ready-to-create branch of syncETA, build() is called only if
\* the row has exactly one final URL, headline1, headline2 and description,
\* path2 only with path1, at most one mobile final URL, custom parameters
\* that are a flat mapping of strings, and both parents on the platform;
\* when any of these fails, syncETA returns, no ad is created, the etaId
\* cell is not written, and the row is marked with every accumulated error.
C12_CreateOnlyWhenValid ==
  (RowCalled("syncETA") /\ ReadyToCreate(LastRowCall.pre.cells)) =>
    LET c == LastRowCall.pre.cells
        valid == WellFormed(c) /\ LastRowCall.parents
    IN /\ sync.rw.built => valid
       /\ ~valid =>
            /\ ~LastRowCall.raised
            /\ sync.rw.created = LastRowCall.pre.created
            /\ sync.rw.eta = LastRowCall.pre.eta
            /\ sync.rw.cells.etaId = c.etaId
            /\ sync.rw.cells.red
            /\ NewMessages # << >>
            /\ ~parseETA(c).threw =>
                 \A i \in 1..Len(isValidForETACreation(parseETA(c))) :
                   InSeq(isValidForETACreation(parseETA(c))[i], NewMessages)

\* the last call was a syncETA during which the platform created the ETA
CreatedNow ==
  /\ RowCalled("syncETA")
  /\ sync.rw.created = LastRowCall.pre.created + 1

StepsOf(log) == [i \in 1..Len(log) |-> log[i].step]
FailedSteps(log) == StepsOf(SelectSeq(log, LAMBDA e : ~e.ok))

\* the message a failing sub-step leaves in the errorMessage cell
MessageOf(step) ==
  CASE step = "etaLabels" -> "Error applying labels on ETA"
    [] step = "etaStatus" -> "Error syncing status for ETA"
    [] step = "etaRetrieve" -> "Error retrieving ETA"
    [] step = "staLabels" -> "Error applying labels on STA"
    [] step = "staStatus" -> "Error syncing status for STA"
    [] step = "staRetrieve" -> "Error retrieving STA"
    [] OTHER -> "Failed to create ETA with errors"

C20_NoSilentFailure ==
  (Len(sync.calls) > 0 /\ ~LastRowCall.raised) =>
    /\ LastRowCall.errorCount = Len(FailedSteps(sync.rw.log))
    /\ \A i \in 1..Len(FailedSteps(sync.rw.log)) :
         \/ FailedSteps(sync.rw.log)[i] = "create" /\ NewMessages # << >>
         \/ InSeq(MessageOf(FailedSteps(sync.rw.log)[i]), NewMessages)

(***************************************************************************)
(* Properties of a pass, stated over SpecSync.                             *)
(***************************************************************************)
PassEnded == sync.pc = "idle" /\ sync.outcome # "none"

\* the row had been given its ETA before the current pass began
CreatedBefore(r) == sync.pass[r].pre.created > 0

ReadyAtStart(r) ==
  /\ ~sync.pass[r].pre.hasErrors
  /\ ReadyToCreate(sync.pass[r].pre.cells)

\* the callback reached the row and its creation gave no ETA
CreationFailed(r) ==
  /\ ReadyAtStart(r)
  /\ sync.pass[r].visited
  /\ sync.rows[r].created = sync.pass[r].pre.created
  /\ ~sync.preview

\* a creation was attempted for the row, and what the platform created is
\* in the etaId cell
CreationMade(r) ==
  /\ sync.pass[r].visited
  /\ sync.rows[r].built
  /\ sync.rows[r].created > sync.pass[r].pre.created =>
       sync.rows[r].cells.etaId = NumberText(NewAdId(sync.pass[r].pre.created))

\* C17: when a pass has ended, a row whose creation failed has not kept a
\* later well-formed ready row from its creation, every row before the later
\* one being a valid row ready for a creation
C17_LaterRowCreated ==
  PassEnded =>
    \A i \in SyncRows, j \in SyncRows :
      ( /\ i < j
        /\ CreationFailed(i)
        /\ \A k \in 1..(j - 1) : ReadyAtStart(k)
        /\ ReadyAtStart(j)
        /\ WellFormed(sync.pass[j].pre.cells) )
      => CreationMade(j)

\* the earlier row failed on its fields alone, and the later row was created
C17_ValidationFailureOnly ==
  PassEnded =>
    \A i \in SyncRows, j \in SyncRows :
      ( /\ i < j
        /\ CreationFailed(i)
        /\ sync.outcome = "returned"
        /\ ReadyAtStart(j)
        /\ WellFormed(sync.pass[j].pre.cells) )
      => CreationMade(j)

\* a cell of the row cannot be read: getArray rejects the labels cell, or an
\* id cell holds no number
UnreadableCell(c) ==
  \/ SpreadsheetRow_getArray(c.labels).threw
  \/ getNumber(c.staId).threw
  \/ getNumber(c.adGroupId).threw
  \/ getNumber(c.etaId).threw

\* C18: when the callback has reached a row with a cell that cannot be read,
\* the pass still returns its count, the row carries an error mark, and every
\* valid row was reached
C18_ReadFailureStaysInRow ==
  PassEnded =>
    \A r \in SyncRows :
      (sync.pass[r].visited /\ UnreadableCell(sync.pass[r].pre.cells)) =>
        /\ sync.outcome = "returned"
        /\ sync.rows[r].hasErrors
        /\ sync.rows[r].cells.red
        /\ \A k \in SyncRows :
             ~sync.pass[k].pre.hasErrors => sync.pass[k].visited

\* the number of error marks the sub-steps of the pass put on the row, the
\* marks of validateValues_ left out
SubStepMarks(r) == sync.rows[r].marks - sync.pass[r].pre.marks

RECURSIVE SubStepMarksUpTo(_)
SubStepMarksUpTo(r) ==
  IF r = 0 THEN 0 ELSE SubStepMarks(r) + SubStepMarksUpTo(r - 1)

ReportFailures == IF sync.reportFailed THEN 1 ELSE 0

\* the rows that carry an error mark
RowsWithErrors == {r \in SyncRows : sync.rows[r].hasErrors}

\* the count is the number of rows with an error mark, and is zero exactly
\* when no row carries one
C19_Original ==
  sync.outcome = "returned" =>
    /\ sync.errorCount = Cardinality(RowsWithErrors)
    /\ sync.errorCount = 0 <=> RowsWithErrors = {}

\* C19: the count syncSpreadsheet returns is one for a report that could not
\* be retrieved plus one for every error mark a sub-step put on a row; it is
\* zero exactly when the report was retrieved and no sub-step marked a row
C19_CountsSubStepFailures ==
  sync.outcome = "returned" =>
    /\ sync.errorCount = ReportFailures + SubStepMarksUpTo(NumSyncRows)
    /\ sync.errorCount = 0 <=>
         (~sync.reportFailed /\ \A r \in SyncRows : SubStepMarks(r) = 0)

\* a pass returned after two sub-steps failed on one row, and a pass
\* returned with a row that validateValues_ marked
C19_Witness ==
  /\ sync.outcome = "returned"
  /\ \E r \in SyncRows : SubStepMarks(r) > 1
  /\ \E r \in SyncRows : sync.pass[r].pre.hasErrors

\* C21: once a pass has read the rows, a row that neither validateValues_
\* nor a sub-step of the pass marked has an empty errorMessage cell and no
\* red background, whatever it carried from an earlier pass
C21_StaleErrorsCleared ==
  sync.passes > 0 =>
    \A r \in SyncRows :
      ~sync.rows[r].hasErrors =>
        /\ sync.rows[r].cells.errorMessage = << >>
        /\ ~sync.rows[r].cells.red

\* a pass returned with a row that carried an error mark into the pass, was
\* reconciled and ended it without one
C21_Witness ==
  /\ sync.outcome = "returned"
  /\ \E r \in SyncRows :
       /\ sync.pass[r].carried
       /\ sync.pass[r].visited
       /\ ~sync.rows[r].hasErrors
       /\ ~sync.rows[r].cells.red

\* Ad.statuses
DeclaredStatuses == {sEnabled, sPaused, disabled}

\* C22: a row whose staStatus and etaStatus are both among Ad.statuses gets
\* no error mark when it is constructed, and the callback reaches it in a
\* pass that retrieved the report and returned
C22_DeclaredStatusAccepted ==
  sync.passes > 0 =>
    \A r \in SyncRows :
      ( /\ sync.pass[r].pre.cells.staStatus \in DeclaredStatuses
        /\ sync.pass[r].pre.cells.etaStatus \in DeclaredStatuses )
      => /\ ~sync.pass[r].pre.hasErrors
         /\ (sync.outcome = "returned" /\ ~sync.reportFailed) =>
              sync.pass[r].visited

(***************************************************************************)
(* Further properties of Ad.syncStatus and Ad.syncLabels, over SpecAd.     *)
(***************************************************************************)
StatusCalls == {i \in 1..Len(ad.calls) : ad.calls[i].op = "syncStatus"}

\* C23: syncStatus called with the empty status does not raise, returns
\* success, and calls pause() when the ad was not paused
C23_EmptyStatusPauses ==
  \A i \in StatusCalls :
    ad.calls[i].status = EMPTY =>
      /\ ~ad.calls[i].threw
      /\ ad.calls[i].ok
      /\ ad.calls[i].before # sPaused => ad.calls[i].called

\* syncStatus calls whose status is not blank and is neither enabled nor
\* paused once trimmed and lowered
UnknownStatusCalls ==
  {i \in StatusCalls :
     /\ ~isEmptyString(ad.calls[i].status)
     /\ toLowerCase(trim(ad.calls[i].status)) \notin {sEnabled, sPaused}}

\* as stated: such a call returns false, does not raise and calls neither
\* enable() nor pause()
C24_Original ==
  \A i \in UnknownStatusCalls :
    /\ ~ad.calls[i].ok
    /\ ~ad.calls[i].threw
    /\ ~ad.calls[i].called

\* C24: such a call does not raise and calls neither enable() nor pause();
\* it returns success when the ad already has that status or is a preview
\* ad, and failure otherwise
C24_UnknownStatusNoMutation ==
  \A i \in UnknownStatusCalls :
    /\ ~ad.calls[i].threw
    /\ ~ad.calls[i].called
    /\ ad.calls[i].ok <=>
         \/ ad.calls[i].before = toLowerCase(trim(ad.calls[i].status))
         \/ ad.obj.id < 0

\* 'disabled' was asked of an enabled or paused ad of the platform and the
\* call returned failure
C24_Witness ==
  \E i \in UnknownStatusCalls :
    /\ ~ad.calls[i].ok
    /\ ad.calls[i].before \in {sEnabled, sPaused}
    /\ ad.obj.hasAd
    /\ ad.obj.id > 0

\* the last call was a syncLabels on an ad of the platform
LastLabelsCall ==
  /\ Len(ad.calls) > 0
  /\ ad.calls[Len(ad.calls)].op = "syncLabels"
  /\ ad.platform.exists
  /\ ad.obj.id > 0

\* C25: a syncLabels on an ad of the platform returns success exactly when
\* no name to add failed; whether or not one failed, every other name to add
\* is on the ad afterwards, and so is every label the ad had
C25_PartialApplication ==
  LastLabelsCall =>
    LET call == ad.calls[Len(ad.calls)]
    IN /\ call.ok <=> call.failed = {}
       /\ \A i \in 1..Len(call.toAdd) :
            call.toAdd[i] \notin call.failed =>
              InSeq(call.toAdd[i], ad.platform.labels)
       /\ \A i \in 1..Len(call.had) : InSeq(call.had[i], ad.platform.labels)

\* the first of two names to add failed and the second is on the ad
C25_Witness ==
  /\ LastLabelsCall
  /\ LET call == ad.calls[Len(ad.calls)]
     IN /\ Len(call.toAdd) > 1
        /\ call.toAdd[1] \in call.failed
        /\ call.toAdd[Len(call.toAdd)] \notin call.failed
        /\ InSeq(call.toAdd[Len(call.toAdd)], ad.platform.labels)
        /\ ~call.ok

(***************************************************************************)
(* Further properties of syncSTA, over SpecRow.                            *)
(***************************************************************************)
\* syncSTA is given an STA and the etaId cell holds a number other than 0
StaSyncActs(rw) ==
  /\ rw.sta.exists
  /\ ~isEmptyString(rw.cells.etaId)
  /\ ~isNaN(rw.cells.etaId)
  /\ Number(rw.cells.etaId) # 0

\* C26: a syncSTA that is given no STA, or finds the etaId cell empty or 0,
\* leaves the STA, the row and its marks as they were, makes no sub-step and
\* counts no error; one that acts and returns syncs the status, when it
\* differs, before the labels, and syncs the labels only when neither the
\* staStatus cell nor the STA reads 'disabled'
C26_StaSyncOnlyAfterMigration ==
  RowCalled("syncSTA") =>
    LET pre == LastRowCall.pre
        steps == StepsOf(sync.rw.log)
    IN /\ ~StaSyncActs(pre) =>
            /\ sync.rw = pre
            /\ LastRowCall.errorCount = 0
       /\ (StaSyncActs(pre) /\ ~LastRowCall.raised) =>
            /\ steps \in {<< >>, <<"staStatus">>, <<"staLabels">>,
                           <<"staStatus", "staLabels">>}
            /\ InSeq("staStatus", steps)
                 <=> pre.sta.status # pre.cells.staStatus
            /\ InSeq("staLabels", steps) =>
                 /\ pre.cells.staStatus # disabled
                 /\ sync.rw.sta.status # disabled

\* a syncSTA synced the status and then the labels
C26_Witness ==
  /\ RowCalled("syncSTA")
  /\ StaSyncActs(LastRowCall.pre)
  /\ StepsOf(sync.rw.log) = <<"staStatus", "staLabels">>

(***************************************************************************)
(* An AdChange driven call by call.                                        *)
(***************************************************************************)
\* two objects with the same content, and arrays over them and over strings
ObjectOne == JsObject(1)
ObjectTwo == JsObject(2)
ArrayOfAa == JsArray(3, <<JsString(sAa)>>)
OtherArrayOfAa == JsArray(4, <<JsString(sAa)>>)
ArrayOfObjectOne == JsArray(5, <<JsString(sAa), ObjectOne>>)
OtherArrayOfObjectOne == JsArray(6, <<JsString(sAa), ObjectOne>>)
ArrayOfObjectTwo == JsArray(7, <<JsString(sAa), ObjectTwo>>)
ArrayOfTwo == JsArray(8, <<JsString(sAa), JsString(sBB)>>)

\* the pairs (oldValue, newValue) handed to trackChange
ValuePairs ==
  {<<JsString(sEnabled), JsString(sEnabled)>>,
   <<JsString(sEnabled), JsString(sPaused)>>,
   <<JsString(EMPTY), JsString(sPaused)>>,
   <<JsString(EMPTY), JsString(EMPTY)>>,
   <<JsString(EMPTY), JsNull>>,
   <<JsNull, JsNull>>,
   <<JsNull, JsUndefined>>,
   <<JsNull, ArrayOfAa>>,
   <<JsString(EMPTY), ArrayOfAa>>,
   <<JsString(sAa), ArrayOfAa>>,
   <<ArrayOfAa, ArrayOfAa>>,
   <<ArrayOfAa, OtherArrayOfAa>>,
   <<ArrayOfAa, ArrayOfTwo>>,
   <<ArrayOfObjectOne, OtherArrayOfObjectOne>>,
   <<ArrayOfObjectOne, ArrayOfObjectTwo>>}

FieldNames == {"status", "labels"}
IdValues == {JsNull, JsNumber(NewAdId(0))}

InitChange ==
  /\ InitSheet({BlankRow})
  /\ ad = NoAd
  /\ \E adId \in IdValues, adGroupId \in IdValues :
       sync = [structure |-> AdChange(adId, adGroupId), calls |-> 0,
               last |-> [op |-> "new", oldValue |-> JsNull,
                         newValue |-> JsNull, fieldName |-> "status",
                         before |-> AdChange(adId, adGroupId)]]

CallTrackChange ==
  /\ sync.calls < MaxCalls
  /\ \E fieldName \in FieldNames, pair \in ValuePairs :
       sync' = [structure |-> trackChange(sync.structure, fieldName,
                                          pair[1], pair[2]),
                calls |-> sync.calls + 1,
                last |-> [op |-> "trackChange", oldValue |-> pair[1],
                          newValue |-> pair[2], fieldName |-> fieldName,
                          before |-> sync.structure]]
  /\ UNCHANGED sheetVars
  /\ UNCHANGED ad

CallTrackCreate ==
  /\ sync.calls < MaxCalls
  /\ \E adId \in IdValues \ {JsNull} :
       sync' = [structure |-> trackCreate(sync.structure, adId, adId),
                calls |-> sync.calls + 1,
                last |-> [op |-> "trackCreate", oldValue |-> adId,
                          newValue |-> adId, fieldName |-> "status",
                          before |-> sync.structure]]
  /\ UNCHANGED sheetVars
  /\ UNCHANGED ad

NextChange == CallTrackChange \/ CallTrackCreate

SpecChange == InitChange /\ [][NextChange]_vars

(***************************************************************************)
(* Properties of AdChange, over SpecChange.                                *)
(***************************************************************************)
\* the arrays have the same length and their elements are pairwise identical
SameElements(a, b) ==
  /\ a.kind = "array"
  /\ b.kind = "array"
  /\ Len(a.val) = Len(b.val)
  /\ \A i \in 1..Len(a.val) : StrictEquals(a.val[i], b.val[i])

\* the last call appended the one entry {fieldName, oldValue, newValue}
OneEntryAppended ==
  sync.structure =
    [sync.last.before EXCEPT
       !.changes = Append(@, [fieldName |-> sync.last.fieldName,
                              oldValue |-> sync.last.oldValue,
                              newValue |-> sync.last.newValue])]

\* after trackCreate: created is set, the ids are those given and the
\* changes are as they were
CreateTracked ==
  sync.last.op = "trackCreate" =>
    /\ sync.structure.created
    /\ sync.structure.adId = sync.last.oldValue
    /\ sync.structure.adGroupId = sync.last.newValue
    /\ sync.structure.changes = sync.last.before.changes

\* as stated: trackChange leaves the record as it was when the values are
\* identical or are arrays with the same elements, and appends one entry
\* otherwise
C27_Original ==
  /\ sync.last.op = "trackChange" =>
       IF \/ StrictEquals(sync.last.oldValue, sync.last.newValue)
          \/ SameElements(sync.last.oldValue, sync.last.newValue)
       THEN sync.structure = sync.last.before
       ELSE OneEntryAppended
  /\ CreateTracked

\* C27: trackChange leaves the record as it was when the values are
\* identical, are both null or undefined, or are arrays of the same length
\* with pairwise identical elements, and appends exactly one entry
\* otherwise; trackCreate sets created and the ids and leaves the changes
C27_TrackChange ==
  /\ sync.last.op = "trackChange" =>
       IF \/ StrictEquals(sync.last.oldValue, sync.last.newValue)
          \/ ( /\ IsNullish(sync.last.oldValue)
               /\ IsNullish(sync.last.newValue) )
          \/ SameElements(sync.last.oldValue, sync.last.newValue)
       THEN sync.structure = sync.last.before
       ELSE OneEntryAppended
  /\ CreateTracked

\* null was followed by undefined and nothing was appended to a record that
\* has a change
C27_Witness ==
  /\ sync.last.op = "trackChange"
  /\ sync.last.oldValue = JsNull
  /\ sync.last.newValue = JsUndefined
  /\ sync.structure = sync.last.before
  /\ Len(sync.structure.changes) > 0

(***************************************************************************)
(* The text of the errorMessage cell.  A message is a string; markAsError  *)
(* takes one message or an array of messages.                              *)
(***************************************************************************)
sDash == <<"-", " ">>
sNewline == <<"\n">>
sNewlineDash == sNewline \o sDash

\* Array.prototype.join
RECURSIVE join(_, _)
join(items, separator) ==
  IF Len(items) = 0 THEN EMPTY
  ELSE IF Len(items) = 1 THEN items[1]
  ELSE items[1] \o separator \o join(Tail(items), separator)

OneMessage(str) == [isArray |-> FALSE, items |-> <<str>>]
ArrayOfMessages(items) == [isArray |-> TRUE, items |-> items]

\* the messages of an array are joined by a newline alone
ErrorText_NoDashInside(messages) ==
  sDash \o (IF messages.isArray THEN join(messages.items, sNewline)
            ELSE messages.items[1]) \o sNewline

\* SpreadsheetRow.prototype.markAsError, 1007-1011: the text appended to the
\* cell
ErrorText(messages) ==
  sDash \o (IF messages.isArray THEN join(messages.items, sNewlineDash)
            ELSE messages.items[1]) \o sNewline

\* SpreadsheetRow.prototype.markAsError on the cell and the background;
\* a blank message is rejected
SpreadsheetRow_markAsError(row, messages) ==
  IF ~messages.isArray /\ isEmptyString(messages.items[1])
  THEN [threw |-> TRUE, row |-> row]
  ELSE [threw |-> FALSE,
        row |-> [errorMessage |-> row.errorMessage \o ErrorText(messages),
                 red |-> TRUE, hasErrors |-> TRUE]]

\* SpreadsheetRow.prototype.markAsResolved on the cell and the background
SpreadsheetRow_markAsResolved(row) ==
  [row EXCEPT !.errorMessage = EMPTY, !.red = FALSE]

(***************************************************************************)
(* A row marked and resolved call by call.                                 *)
(***************************************************************************)
\* what the callers pass: one message, or the messages of a failed creation
MessagesPassed ==
  {OneMessage(sAa), OneMessage(sBB), OneMessage(sBlank), OneMessage(EMPTY),
   ArrayOfMessages(<<sAa>>), ArrayOfMessages(<<sAa, sBB>>),
   ArrayOfMessages(<<sBB, sBB, sAa>>)}

\* the row as a run finds it: clean, or marked by an earlier run
MarkedRows ==
  {[errorMessage |-> EMPTY, red |-> FALSE, hasErrors |-> FALSE],
   [errorMessage |-> ErrorText(OneMessage(sErr)), red |-> TRUE,
    hasErrors |-> FALSE]}

\* passed: the messages of the markAsError calls that returned since the
\* last markAsResolved
InitMark ==
  /\ InitSheet({BlankRow})
  /\ ad = NoAd
  /\ \E row \in MarkedRows :
       sync = [row |-> row, resolved |-> FALSE, passed |-> << >>,
               marks |-> 0, last |-> "new"]

CallMarkAsResolved ==
  /\ sync.marks < MaxMarks
  /\ sync' = [row |-> SpreadsheetRow_markAsResolved(sync.row),
              resolved |-> TRUE, passed |-> << >>,
              marks |-> sync.marks + 1, last |-> "markAsResolved"]
  /\ UNCHANGED sheetVars
  /\ UNCHANGED ad

CallMarkAsError ==
  /\ sync.marks < MaxMarks
  /\ \E messages \in MessagesPassed :
       \E res \in {SpreadsheetRow_markAsError(sync.row, messages)} :
         sync' = [sync EXCEPT
                    !.row = res.row,
                    !.passed = IF res.threw THEN @ ELSE @ \o messages.items,
                    !.marks = @ + 1,
                    !.last = IF res.threw THEN "raised" ELSE "markAsError"]
  /\ UNCHANGED sheetVars
  /\ UNCHANGED ad

NextMark == CallMarkAsResolved \/ CallMarkAsError

SpecMark == InitMark /\ [][NextMark]_vars

(***************************************************************************)
(* Properties of the error mark, over SpecMark.                            *)
(***************************************************************************)
\* every message in order, each after '- ' and before a newline
RECURSIVE Lines(_)
Lines(messages) ==
  IF messages = << >> THEN EMPTY
  ELSE sDash \o Head(messages) \o sNewline \o Lines(Tail(messages))

\* C28: once markAsResolved was called, the errorMessage cell holds the
\* messages passed to markAsError since the last markAsResolved, in call
\* order, each prefixed with '- ' and ended by a newline, and the row is red
\* when there is one; after markAsResolved the cell is empty and the row is
\* not red
C28_MessagesAccumulate ==
  sync.resolved =>
    /\ sync.row.errorMessage = Lines(sync.passed)
    /\ sync.row.red <=> sync.passed # << >>
    /\ sync.last = "markAsResolved" =>
         (sync.row.errorMessage = EMPTY /\ ~sync.row.red)

\* a message and then an array of messages were passed after a
\* markAsResolved of a row that an earlier run had marked
C28_Witness ==
  /\ sync.resolved
  /\ sync.last = "markAsError"
  /\ Len(sync.passed) > Len(sync.passed[1])
  /\ sync.passed[1] # sync.passed[Len(sync.passed)]
  /\ sync.row.red
  /\ sync.row.errorMessage # EMPTY

(***************************************************************************)
(* Further properties of the linked edit, over SpecLink.                   *)
(***************************************************************************)
\* an accepted edit of a linked column, linking on, that found no entry in
\* the cache
EditWithoutEntry ==
  /\ last.op = "edit"
  /\ last.linkingOn
  /\ IsLinkedColumn(last.col)
  /\ last.stage # "readonly"
  /\ ~last.preStorage.present

\* the sheet as the trigger found it
SheetAtEdit == [last.pre EXCEPT ![last.row][last.col] = last.value]

\* C29: an edit of a linked cell that finds no entry in the cache rebuilds
\* the index by a scan of the sheet, handleLinkedRangeEdit reads the entry
\* that scan saved, and every row that held the old value holds the new one
C29_RebuiltBeforeLookup ==
  EditWithoutEntry =>
    /\ last.rebuilt
    /\ last.linkedCalled
    /\ last.storageAtCall
         = linkMatchingColumns(SheetAtEdit, last.preBg).storage
    /\ ( /\ ~isEmptyString(last.oldValue)
         /\ ~isEmptyString(last.value)
         /\ last.oldValue # last.value ) => Propagated

(***************************************************************************)
(* Rows inserted into and deleted from the main sheet.  The project        *)
(* installs onOpen and onEdit only: neither runs when a row is inserted or *)
(* deleted, so the sheet shifts and the cached index stays as it was.      *)
(***************************************************************************)
lastRow == firstContentRow + NumRows - 1

NoColorRow == [c \in Cols |-> NoColor]

\* the sheet after the row at r is deleted: the rows below move up by one
\* and the sheet's empty rows follow
RowDeleted(sheet, r, blank) ==
  [x \in Rows |-> IF x < r THEN sheet[x]
                  ELSE IF x < lastRow THEN sheet[x + 1]
                  ELSE blank]

\* the sheet after a row is inserted above r: the rows from r on move down
\* by one
RowInserted(sheet, r, new) ==
  [x \in Rows |-> IF x < r THEN sheet[x]
                  ELSE IF x = r THEN new
                  ELSE sheet[x - 1]]

DeleteRow ==
  /\ edits < MaxEdits
  /\ \E r \in Rows :
       /\ cells' = RowDeleted(cells, r, BlankRow)
       /\ bg' = RowDeleted(bg, r, NoColorRow)
       /\ last' = [NoLast EXCEPT !.op = "delete", !.row = r, !.pre = cells,
                                 !.preBg = bg, !.preStorage = storage]
  /\ edits' = edits + 1
  /\ UNCHANGED <<linkingCell, storage, buckets, adds, chain>>
  /\ UNCHANGED scriptVars

\* the inserted row is empty and takes the format of a row next to it; the
\* rows followed here are those above the sheet's empty rows
InsertRow ==
  /\ edits < MaxEdits
  /\ cells[lastRow] = BlankRow
  /\ bg[lastRow] = NoColorRow
  /\ \E r \in Rows :
       \E format \in {NoColorRow} \cup {bg[x] : x \in {r - 1, r} \cap Rows} :
         /\ cells' = RowInserted(cells, r, BlankRow)
         /\ bg' = RowInserted(bg, r, format)
         /\ last' = [NoLast EXCEPT !.op = "insert", !.row = r, !.pre = cells,
                                   !.preBg = bg, !.preStorage = storage]
  /\ edits' = edits + 1
  /\ UNCHANGED <<linkingCell, storage, buckets, adds, chain>>
  /\ UNCHANGED scriptVars

NextShift == OnOpen \/ DeleteRow \/ InsertRow \/ EditUrl

SpecShift == InitLink /\ [][NextShift]_vars

\* a step that is an edit old -> new (both non-empty, different) of a linked
\* column, linking on, which reaches handleLinkedRangeEdit with the entry
\* of the last rebuild
LinkedEditStep ==
  /\ chain = 0
  /\ storage.present
  /\ last'.op = "edit"
  /\ last'.linkedCalled
  /\ ~last'.rebuilt
  /\ ~isEmptyString(last'.oldValue)
  /\ ~isEmptyString(last'.value)
  /\ last'.oldValue # last'.value

\* the step writes the new value into every content row that holds the old
\* value in the edited column, and into the edited cell, and leaves every
\* row that does not hold the old value as it is
UpdatesExactlyHolders ==
  \A r \in Rows :
    IF cells[r][last'.col] # last'.oldValue THEN cells'[r] = cells[r]
    ELSE (r = last'.row \/ r \in ContentRowSet(cells))
           => cells'[r] = [cells[r] EXCEPT ![last'.col] = last'.value]

\* no other value of the edited column shares the hash of the old value
NoCollision ==
  \A r \in Rows :
    cells[r][last'.col] # last'.oldValue
      => hashCode_(cells[r][last'.col]) # hashCode_(last'.oldValue)

\* C30: when a row was inserted or deleted after the last rebuild, the next
\* edit of a linked cell updates exactly the rows that hold the old value
\* at the time of the edit and no other row
C30_SurvivesRowShift ==
  [][ (last.op \in {"insert", "delete"} /\ LinkedEditStep /\ NoCollision)
        => UpdatesExactlyHolders ]_vars

\* the same edit made right after the rebuild, no row inserted or deleted
\* in between, updates exactly the rows that hold the old value
C30_WithoutShift ==
  [][ (last.op = "link" /\ LinkedEditStep /\ NoCollision)
        => UpdatesExactlyHolders ]_vars

(***************************************************************************)
(* Further properties of the read-only rules, over SpecField.              *)
(***************************************************************************)
\* C36: an edit that sets an etaStatus cell reading 'enabled' or 'paused'
\* to 'disabled' is accepted: the cell keeps 'disabled' and the edit is not
\* reverted
C36_DisableAccepted ==
  ( /\ last.op = "edit"
    /\ last.col = ColumnIndex("etaStatus")
    /\ last.oldValue \in {sEnabled, sPaused}
    /\ last.value = disabled )
    => /\ last.stage # "readonly"
       /\ cells[last.row][last.col] = disabled

(***************************************************************************)
(* Further properties of handleLinkedRangeEdit, over SpecLink.             *)
(***************************************************************************)
\* handleLinkedRangeEdit was called for the last edit
LinkedCall == last.op = "edit" /\ last.linkedCalled

\* it raised
LinkedRaised == LinkedCall /\ last.stage = "linked"

\* it returned after passing the test on the old and the new value
LinkedReturnedAfterChange ==
  /\ LinkedCall
  /\ last.stage # "linked"
  /\ ~isEmptyString(last.oldValue)
  /\ last.oldValue # last.value

\* the rows the entry read by the call lists for the old value
RowsListedForOld ==
  getValue(load_(last.storageAtCall), last.col, last.oldValue).value.rows

\* C33: when handleLinkedRangeEdit raises, no cell of the sheet and nothing
\* of the cached entry has changed; when it returns after a change of value,
\* the listed rows hold the new value and the cached entry has been written
C33_AllOrNothing ==
  /\ LinkedRaised => /\ cells = SheetAtEdit
                     /\ storage = last.storageAtCall
  /\ LinkedReturnedAfterChange =>
       /\ \A i \in 1..Len(RowsListedForOld) :
            cells[RowsListedForOld[i]][last.col] = last.value
       /\ storage = save(last.bucketsAtReturn)
       /\ storage # last.storageAtCall

\* the entry read by the call holds no bucket for the old value
NoBucketForOld ==
  getValue(load_(last.storageAtCall), last.col, last.oldValue).value.kind
    # "array"

\* C34: handleLinkedRangeEdit does not raise for an edit of a linked cell
\* whose old value is non-empty and differs from the new value; when the
\* entry holds no bucket for the old value, no other row is changed
C34_CompletesWithoutBucket ==
  ( /\ LinkedCall
    /\ ~isEmptyString(last.oldValue)
    /\ last.oldValue # last.value )
    => /\ ~LinkedRaised
       /\ NoBucketForOld => cells = SheetAtEdit

\* the cells the last edit's handlers changed lie in the edited column, in
\* rows that held the old value before the edit
OnlyHoldersWritten ==
  \A r \in Rows : \A c \in Cols :
    cells[r][c] # SheetAtEdit[r][c]
      => c = last.col /\ last.pre[r][c] = last.oldValue

\* the cached entry lists for every other value, and in every other column,
\* what it listed before
OtherBucketsKept ==
  \A c \in LinkedIndices : \A v \in BucketKeys :
    (c # last.col \/ v \notin {last.oldValue, last.value})
      => getValue(load_(storage), c, v)
           = getValue(load_(last.storageAtCall), c, v)

\* C35: handleLinkedRangeEdit changes only cells of the edited column in
\* rows that held the old value before the edit, and only the buckets of the
\* old and the new value in the edited column
C35_FrameOfLinkedEdit ==
  LinkedCall => OnlyHoldersWritten /\ OtherBucketsKept

(***************************************************************************)
(* Two MatchingColumnsBucket instances on one cache, each constructed with *)
(* its own storage key.  sync holds the cache (one entry per key), each    *)
(* instance's matchingColumnsBuckets_, and for each instance the entry and *)
(* the matchingColumnsBuckets_ it gets when it makes the same calls on a   *)
(* cache nobody else uses.                                                 *)
(***************************************************************************)
StorageKeys == {"matching_columns", "other_columns"}

\* storage.put(key, value) with every key written as one key
CachePut_OneKey(cache, key, entry) == [k \in DOMAIN cache |-> entry]

\* storage.put(key, value) and storage.get(key)
CachePut(cache, key, entry) == [cache EXCEPT ![key] = entry]
CacheGet(cache, key) == cache[key]

\* the constructor: matchingColumnsBuckets_ = {}, then load_()
MatchingColumnsBucket(cache, storageKey) == load_(CacheGet(cache, storageKey))

\* save() and clear() of an instance holding matchingColumnsBuckets_ mem
Bucket_save(cache, storageKey, mem) == CachePut(cache, storageKey, save(mem))
Bucket_clear(cache, storageKey) == CachePut(cache, storageKey, NoEntry)

\* the cache an instance has to itself
OwnCache(entry) == [k \in StorageKeys |-> entry]

InitKeys ==
  /\ InitSheet({BlankRow})
  /\ ad = NoAd
  /\ sync = [cache |-> [k \in StorageKeys |-> NoEntry],
             mem |-> [k \in StorageKeys |-> EmptyBuckets],
             alone |-> [k \in StorageKeys |->
                          [entry |-> NoEntry, mem |-> EmptyBuckets]],
             steps |-> 0, saved |-> {}, threw |-> FALSE]

\* one step of the instance with key k: what it does to the shared cache and
\* to its own object, and what the same call does on a cache of its own
KeyStep(k, cacheAfter, memAfter, ownAfter, ownMemAfter, threw) ==
  /\ sync.steps < MaxSteps
  /\ sync' = [sync EXCEPT
                !.cache = cacheAfter,
                !.mem[k] = memAfter,
                !.alone[k] = [entry |-> ownAfter[k], mem |-> ownMemAfter],
                !.steps = @ + 1,
                !.saved = IF cacheAfter[k] # sync.cache[k] /\ cacheAfter[k].present
                          THEN @ \cup {k} ELSE @,
                !.threw = threw]
  /\ UNCHANGED sheetVars
  /\ UNCHANGED ad

KeyLoad ==
  \E k \in StorageKeys :
    KeyStep(k, sync.cache, MatchingColumnsBucket(sync.cache, k),
            OwnCache(sync.alone[k].entry),
            MatchingColumnsBucket(OwnCache(sync.alone[k].entry), k), FALSE)

KeySave ==
  \E k \in StorageKeys :
    KeyStep(k, Bucket_save(sync.cache, k, sync.mem[k]), sync.mem[k],
            Bucket_save(OwnCache(sync.alone[k].entry), k, sync.alone[k].mem),
            sync.alone[k].mem, FALSE)

KeyClear ==
  \E k \in StorageKeys :
    KeyStep(k, Bucket_clear(sync.cache, k), EmptyBuckets,
            Bucket_clear(OwnCache(sync.alone[k].entry), k), EmptyBuckets,
            FALSE)

KeyAddValue ==
  \E k \in StorageKeys, bucketKey \in {sAa, sWwwAa} :
    \E res \in {addValue(sync.mem[k], ColumnIndex("displayUrl"), bucketKey,
                         firstContentRow)},
       own \in {addValue(sync.alone[k].mem, ColumnIndex("displayUrl"),
                         bucketKey, firstContentRow)} :
      KeyStep(k, sync.cache, res.buckets, OwnCache(sync.alone[k].entry),
              own.buckets, res.threw)

KeyTransferBucket ==
  \E k \in StorageKeys, from \in {sAa, sWwwAa}, to \in {sAa, sWwwAa} :
    /\ from # to
    /\ \E res \in {transferBucket(sync.mem[k], ColumnIndex("displayUrl"),
                                  from, to)},
          own \in {transferBucket(sync.alone[k].mem,
                                  ColumnIndex("displayUrl"), from, to)} :
         KeyStep(k, sync.cache, res.buckets, OwnCache(sync.alone[k].entry),
                 own.buckets, res.threw)

NextKeys == KeyLoad \/ KeySave \/ KeyClear \/ KeyAddValue \/ KeyTransferBucket

SpecKeys == InitKeys /\ [][NextKeys]_vars

\* C31: under every interleaving of the load, addValue, transferBucket, save
\* and clear steps of two instances with different storage keys, the entry
\* stored under each key and each instance's buckets are the ones that
\* instance gets alone
C31_KeysDoNotInterfere ==
  \A k \in StorageKeys :
    /\ sync.cache[k] = sync.alone[k].entry
    /\ sync.mem[k] = sync.alone[k].mem

\* both instances have saved a non-empty index, and the two entries differ
C31_Witness ==
  /\ sync.saved = StorageKeys
  /\ \A k \in StorageKeys : sync.cache[k].present
  /\ \E k1 \in StorageKeys, k2 \in StorageKeys :
       /\ sync.cache[k1] # sync.cache[k2]
       /\ sync.cache[k1].json # EmptyBuckets

(***************************************************************************)
(* Further properties of the passes, over SpecSync.                        *)
(***************************************************************************)
\* the ads of row r on the platform are as the pass found them
PlatformUntouched(r) ==
  /\ sync.rows[r].remote = {}
  /\ sync.rows[r].sta = sync.pass[r].pre.sta
  /\ sync.rows[r].eta = sync.pass[r].pre.eta
  /\ sync.rows[r].created = sync.pass[r].pre.created

ChangedFields(structure) ==
  {structure.changes[i].fieldName : i \in DOMAIN structure.changes}

\* the fields of the row's ad that a remote mutation was carried out for
RemoteFields(rw, adType) ==
  {m.fieldName : m \in {x \in rw.remote : x.adType = adType}}

\* the status an ad is created with is part of its creation
WithCreation(structure) ==
  IF structure.created THEN {"status"} ELSE {}

\* C38: outside preview mode the record of the changes of a row's ETA or STA
\* lists a field only if a remote mutation of that field was carried out for
\* the row during the call; a row that needs no mutation has empty records
C38_ChangesAreMutations ==
  (~sync.preview /\ sync.calls # << >>) =>
    /\ ChangedFields(sync.rw.etaChanges)
         \subseteq (RemoteFields(sync.rw, "eta")
                      \cup WithCreation(sync.rw.etaChanges))
    /\ ChangedFields(sync.rw.staChanges) \subseteq RemoteFields(sync.rw, "sta")

\* the records are right as long as the platform's ad has no label that the
\* row does not ask for
C38_WithoutExtraLabels ==
  (~sync.preview /\ sync.calls # << >>
     /\ \A i \in DOMAIN sync.calls :
          \A n \in LabelNames \cup {defaultLabelName} :
            (\/ InSeq(n, sync.calls[i].pre.eta.labels)
             \/ InSeq(n, sync.calls[i].pre.sta.labels)) =>
            InSeq(n, getLabelsToApply(sync.calls[i].pre.cells.labels,
                                      defaultLabelName).values)) =>
    /\ ChangedFields(sync.rw.etaChanges)
         \subseteq (RemoteFields(sync.rw, "eta")
                      \cup WithCreation(sync.rw.etaChanges))
    /\ ChangedFields(sync.rw.staChanges) \subseteq RemoteFields(sync.rw, "sta")

(***************************************************************************)
(* exportSTA: the ads of the report are appended to the sheet.  A content  *)
(* row of the sheet holds the cells staId, adGroupId and etaId; an ad of   *)
(* the report has an id and an ad group.                                   *)
(***************************************************************************)
ExportRow(staId, adGroupId, etaId) ==
  [staId |-> staId, adGroupId |-> adGroupId, etaId |-> etaId]

ReportRow(id, adGroupId) == [id |-> id, adGroupId |-> adGroupId]

\* Ad.prototype.export: the ad becomes a new content row without an ETA
Ad_export(rows, reportAd) ==
  Append(rows, ExportRow(NumberText(reportAd.id),
                         NumberText(reportAd.adGroupId), EMPTY))

\* the keys of an object whose keys are numbers, as Object.keys lists them:
\* in ascending order
RECURSIVE ObjectKeys(_)
ObjectKeys(ids) ==
  IF ids = {} THEN << >>
  ELSE LET least == CHOOSE i \in ids : \A j \in ids : i <= j
       IN <<least>> \o ObjectKeys(ids \ {least})

\* createIndexableObjectFromKeys(objects, ['id']): the last object of an id
\* is the one the id leads to
createIndexableObjectFromKeys(objects) ==
  [id \in {objects[i].id : i \in DOMAIN objects} |->
     objects[CHOOSE i \in DOMAIN objects :
               /\ objects[i].id = id
               /\ \A j \in DOMAIN objects : objects[j].id = id => j <= i]]

\* the rows whose etaId cell is empty
EmptyEtaRows(rows) == {r \in DOMAIN rows : isEmptyString(rows[r].etaId)}

\* exportSTA, 1299-1326: the ads of the report that no row of the sheet
\* holds the id of, in the order of Object.keys
reportsNotPresentInSheet(mostPerformingAds, nonEmptyRows) ==
  LET mostPerformingAdsObject ==
        createIndexableObjectFromKeys(mostPerformingAds)
      present == {getNumber(nonEmptyRows[r].staId).value :
                    r \in DOMAIN nonEmptyRows}
      keys == ObjectKeys(DOMAIN mostPerformingAdsObject \ present)
  IN [i \in 1..Len(keys) |-> mostPerformingAdsObject[keys[i]]]

RECURSIVE ExportFrom(_, _, _, _)
\* exportSTA, 1332-1334: the first maxAdsToExport ads are exported
ExportFrom(i, maxAdsToExport, mostPerformingAds, rows) ==
  IF i > maxAdsToExport THEN rows
  ELSE ExportFrom(i + 1, maxAdsToExport, mostPerformingAds,
                  Ad_export(rows, mostPerformingAds[i]))

\* exportSTA; maxAdsToExport.nan: the argument is no number;
\* mostPerformingAds: what getMostPerformingAds returns for the report
exportSTA(maxAdsToExport, nonEmptyRows, mostPerformingAds) ==
  LET pending == Cardinality(EmptyEtaRows(nonEmptyRows))
      ads == IF Len(nonEmptyRows) > 0
             THEN reportsNotPresentInSheet(mostPerformingAds, nonEmptyRows)
             ELSE mostPerformingAds
      decremented == IF Len(nonEmptyRows) > 0
                     THEN maxAdsToExport.n - pending ELSE maxAdsToExport.n
      floored == IF decremented > 0 THEN decremented ELSE 0
      count == IF floored < Len(ads) THEN floored ELSE Len(ads)
  IN IF maxAdsToExport.nan
     THEN [raised |-> TRUE, exportedCount |-> 0, remainingRowCount |-> 0,
           exported |-> << >>, rows |-> nonEmptyRows]
     ELSE [raised |-> FALSE,
           exportedCount |-> count,
           remainingRowCount |-> decremented - count,
           exported |-> SubSeq(ads, 1, count),
           rows |-> ExportFrom(1, count, ads, nonEmptyRows)]

(***************************************************************************)
(* exportSTA driven call by call, with the ETA of a row created between    *)
(* the calls.                                                              *)
(***************************************************************************)
\* the ads of the account: ad 1 exists in two ad groups
AccountAds == {ReportRow(1, 1), ReportRow(2, 1), ReportRow(1, 2)}

\* the reports: the ads of a part of the account, in an order of performance
Reports ==
  {s \in UNION {[1..n -> AccountAds] : n \in 0..Cardinality(AccountAds)} :
     \A i, j \in DOMAIN s : i # j => s[i] # s[j]}

\* the values of CONFIG.numOfAds
NumOfAds ==
  {[nan |-> TRUE, n |-> 0]} \cup {[nan |-> FALSE, n |-> k] : k \in 0..MaxAds}

InitExport ==
  /\ InitSheet({BlankRow})
  /\ ad = NoAd
  /\ sync = [rows |-> << >>, calls |-> 0, called |-> FALSE,
             maxAdsToExport |-> [nan |-> FALSE, n |-> 0], pre |-> << >>,
             report |-> << >>, raised |-> FALSE, exportedCount |-> 0,
             exported |-> << >>]

CallExportSTA ==
  /\ sync.calls < MaxExports
  /\ \E maxAdsToExport \in NumOfAds, report \in Reports :
       \E res \in {exportSTA(maxAdsToExport, sync.rows, report)} :
         sync' = [rows |-> res.rows, calls |-> sync.calls + 1,
                  called |-> TRUE, maxAdsToExport |-> maxAdsToExport,
                  pre |-> sync.rows, report |-> report,
                  raised |-> res.raised,
                  exportedCount |-> res.exportedCount,
                  exported |-> res.exported]
  /\ UNCHANGED sheetVars
  /\ UNCHANGED ad

\* syncETA, 1655-1657: a pass writes the id of the ETA it created for a row
SetEtaId ==
  /\ \E r \in EmptyEtaRows(sync.rows) :
       sync' = [sync EXCEPT !.rows[r].etaId = sId, !.called = FALSE]
  /\ UNCHANGED sheetVars
  /\ UNCHANGED ad

NextExport == CallExportSTA \/ SetEtaId

SpecExport == InitExport /\ [][NextExport]_vars

\* the ids the rows of the sheet hold
StaIds(rows) == {getNumber(rows[r].staId).value : r \in DOMAIN rows}

\* the ads of the report whose id no row of the sheet holds
NotInSheet(report, rows) ==
  {i \in DOMAIN report : report[i].id \notin StaIds(rows)}

Least(a, b) == IF a < b THEN a ELSE b
Most(a, b) == IF a > b THEN a ELSE b

\* C39: with P rows of the sheet having an empty etaId before the call,
\* exportSTA exports min(max(numOfAds - P, 0), number of ads of the report
\* whose id is not in the sheet) ads, never a negative number and never an
\* ad whose id a row of the sheet already held, and afterwards at most
\* max(numOfAds, P) rows have an empty etaId
C39_ExportBounded ==
  (sync.called /\ ~sync.raised) =>
    LET P == Cardinality(EmptyEtaRows(sync.pre))
        N == sync.maxAdsToExport.n
    IN /\ sync.exportedCount
            = Least(Most(N - P, 0),
                    Cardinality(NotInSheet(sync.report, sync.pre)))
       /\ sync.exportedCount >= 0
       /\ \A i \in DOMAIN sync.exported :
            sync.exported[i].id \notin StaIds(sync.pre)
       /\ Cardinality(EmptyEtaRows(sync.rows)) <= Most(N, P)

\* no two ads of the report have the same id
DistinctIds(report) ==
  \A i, j \in DOMAIN report : report[i].id = report[j].id => i = j

\* the count is the one stated when the ids of the report are distinct
C39_WithDistinctIds ==
  (sync.called /\ ~sync.raised /\ DistinctIds(sync.report)) =>
    LET P == Cardinality(EmptyEtaRows(sync.pre))
        N == sync.maxAdsToExport.n
    IN /\ sync.exportedCount
            = Least(Most(N - P, 0),
                    Cardinality(NotInSheet(sync.report, sync.pre)))
       /\ sync.exportedCount >= 0
       /\ \A i \in DOMAIN sync.exported :
            sync.exported[i].id \notin StaIds(sync.pre)
       /\ Cardinality(EmptyEtaRows(sync.rows)) <= Most(N, P)

\* whatever the ids, the number of rows without an ETA stays bounded and no
\* exported ad has an id that a row of the sheet held
C39_PendingBounded ==
  (sync.called /\ ~sync.raised) =>
    /\ sync.exportedCount >= 0
    /\ sync.exportedCount = Len(sync.exported)
    /\ Len(sync.rows) = Len(sync.pre) + sync.exportedCount
    /\ \A i \in DOMAIN sync.exported :
         sync.exported[i].id \notin StaIds(sync.pre)
    /\ Cardinality(EmptyEtaRows(sync.rows))
         <= Most(sync.maxAdsToExport.n, Cardinality(EmptyEtaRows(sync.pre)))

(***************************************************************************)
(* main: the header row is validated, the ads of the report are exported   *)
(* and the rows are reconciled.  The sheet has the columns path1 and       *)
(* path2 under validation.                                                 *)
(***************************************************************************)
\* CONFIG.spreadsheet.columns
columns == <<(<<"p", "a", "t", "h", "1">>), (<<"p", "a", "t", "h", "2">>)>>

\* CONFIG.spreadsheet.columnMappingSpecialCases: none configured
columnMappingSpecialCases == NoObject

\* the characters of a cell that \W matches
NonWordChars ==
  {" ", "?", ".", "/", ":", "-", ",", "[", "]", "{", "}", "\""}

IsWordChar(ch) == ch \notin NonWordChars

\* validateSpreadsheet, _parseHeader
_parseHeader(specialCases, header) ==
  LET parsed == toLowerCase(SelectSeq(header, IsWordChar))
  IN IF /\ ~isEmpty(specialCases)
        /\ parsed \in DOMAIN specialCases
        /\ ~isEmptyString(specialCases[parsed])
     THEN specialCases[parsed]
     ELSE parsed

\* validateSpreadsheet, _checkHeaders: expectedHeaders.shift() gives
\* undefined once the array is used up
_checkHeaders(headers, expectedHeaders) ==
  \A i \in 1..Len(headers) :
    i <= Len(expectedHeaders) /\ headers[i] = expectedHeaders[i]

\* validateSpreadsheet; headerValues: the first columns.length cells of the
\* header row
validateSpreadsheet(headerValues) ==
  _checkHeaders(
    [i \in 1..Len(columns) |->
       _parseHeader(columnMappingSpecialCases, columns[i])],
    [i \in 1..Len(headerValues) |->
       _parseHeader(columnMappingSpecialCases, headerValues[i])])

\* the cells Ad.prototype.export fills for an ad of the report: the ETA's
\* are left empty
ExportedCells(reportAd) ==
  [ReadyCells EXCEPT !.staId = NumberText(reportAd.id),
                     !.adGroupId = NumberText(reportAd.adGroupId),
                     !.readyToUpload = EMPTY, !.etaStatus = EMPTY,
                     !.finalUrl = EMPTY, !.headline1 = EMPTY,
                     !.headline2 = EMPTY, !.description = EMPTY]

\* the rows as exportSTA reads them
ExportRows(rows) ==
  [r \in DOMAIN rows |-> ExportRow(rows[r].cells.staId,
                                   rows[r].cells.adGroupId,
                                   rows[r].cells.etaId)]

\* the state of a run of main; valid: what validateSpreadsheet returned;
\* pc: "rows" while the rows are reconciled
MainState(valid, raised, exported, rows, queue, errorCount, pc) ==
  [valid |-> valid, raised |-> raised, exported |-> exported, rows |-> rows,
   queue |-> queue, errorCount |-> errorCount, pc |-> pc]

\* the rows of the sheet once the ads are exported, as syncSpreadsheet
\* builds them
RowsOfPass(rows, exported) ==
  LET sheetRows ==
        rows \o [i \in 1..Len(exported) |->
                   RowUnderSync(ExportedCells(exported[i]),
                                PlatformAd(TRUE, sEnabled, << >>),
                                NoPlatformAd)]
  IN [r \in DOMAIN sheetRows |-> SpreadsheetRow(sheetRows[r])]

\* the export and the pass start whatever validateSpreadsheet returns
main_IgnoresValidation(headerValues, numOfAds, rows, report, reportFails) ==
  LET exported == exportSTA(numOfAds, ExportRows(rows), report)
      built == RowsOfPass(rows, exported.exported)
  IN IF FALSE
     THEN MainState(FALSE, FALSE, << >>, rows, << >>, 0, "idle")
     ELSE IF exported.raised
       THEN MainState(TRUE, TRUE, << >>, rows, << >>, 0, "idle")
     ELSE IF reportFails
       THEN MainState(validateSpreadsheet(headerValues), FALSE,
                      exported.exported, built, << >>, 1, "rows")
     ELSE MainState(validateSpreadsheet(headerValues), FALSE,
                    exported.exported, built, ValidRowsFrom(1, built), 0,
                    "rows")

\* main, for one account, up to the forEach of syncSpreadsheet; report: the
\* ads of the report, by performance; reportFails: the reports of the pass
\* cannot be read
main(headerValues, numOfAds, rows, report, reportFails) ==
  LET exported == exportSTA(numOfAds, ExportRows(rows), report)
      built == RowsOfPass(rows, exported.exported)
  IN IF ~validateSpreadsheet(headerValues)
     THEN MainState(FALSE, FALSE, << >>, rows, << >>, 0, "idle")
     ELSE IF exported.raised
       THEN MainState(TRUE, TRUE, << >>, rows, << >>, 0, "idle")
     ELSE IF reportFails
       THEN MainState(TRUE, FALSE, exported.exported, built, << >>, 1,
                      "rows")
     ELSE MainState(TRUE, FALSE, exported.exported, built,
                    ValidRowsFrom(1, built), 0, "rows")

(***************************************************************************)
(* main driven run by run, with the user editing the header row between    *)
(* the runs.                                                               *)
(***************************************************************************)
\* what the user may type into a header cell
HeaderValues ==
  {<<"p", "a", "t", "h", "2", "?">>, <<"p", "a", "t", "h", "_", "2">>, EMPTY}

\* the sheet of the template: its headers are the configured ones
TemplateHeader == << <<"P", "a", "t", "h", " ", "1">>,
                     <<"P", "a", "t", "h", " ", "2">> >>

\* the rows of the sheet at the first run
MainRows ==
  {<<RowUnderSync(c, PlatformAd(TRUE, sEnabled, << >>), NoPlatformAd)>> :
     c \in {ReadyCells, [ReadyCells EXCEPT !.readyToUpload = sNo],
            [ReadyCells EXCEPT !.staStatus = sPaused, !.labels = sAa]}}

\* the reports of the runs
MainReports == {<< >>, <<ReportRow(2, 1)>>}

InitMain ==
  /\ InitSheet({BlankRow})
  /\ ad = NoAd
  /\ \E preview \in BOOLEAN, rows \in MainRows :
       sync = [preview |-> preview, header |-> TemplateHeader,
               rows |-> rows, runs |-> 0, pc |-> "idle", queue |-> << >>,
               errorCount |-> 0,
               last |-> [header |-> TemplateHeader, pre |-> rows,
                         report |-> << >>, valid |-> TRUE,
                         raised |-> FALSE, exported |-> << >>]]

\* the user types a value into a cell of the header row
EditHeader ==
  /\ sync.pc = "idle"
  /\ \E i \in DOMAIN sync.header, value \in HeaderValues :
       /\ sync.header[i] # value
       /\ sync' = [sync EXCEPT !.header[i] = value]
  /\ UNCHANGED sheetVars
  /\ UNCHANGED ad

\* a scheduled run of main starts
StartMain ==
  /\ sync.pc = "idle"
  /\ sync.runs < MaxRuns
  /\ \E report \in MainReports, reportFails \in BOOLEAN :
       \E res \in {main(sync.header, [nan |-> FALSE, n |-> MaxAds],
                        sync.rows, report, reportFails)} :
         sync' = [sync EXCEPT
                    !.rows = res.rows,
                    !.runs = @ + 1,
                    !.pc = res.pc,
                    !.queue = res.queue,
                    !.errorCount = res.errorCount,
                    !.last = [header |-> sync.header, pre |-> sync.rows,
                              report |-> report, valid |-> res.valid,
                              raised |-> res.raised,
                              exported |-> res.exported]]
  /\ UNCHANGED sheetVars
  /\ UNCHANGED ad

\* one call of the forEach callback of syncSpreadsheet; an exception leaves
\* main
MainReconcileRow ==
  /\ sync.pc = "rows"
  /\ sync.queue # << >>
  /\ \E env \in SyncEnvs :
       LET r == Head(sync.queue)
           rw == sync.rows[r]
       IN \E resolved \in {ResolveSta(rw, TRUE)} :
          \E eta \in {syncETA(resolved.rw,
                               FromReport(TRUE, rw.cells.etaId, rw.eta),
                               env, sync.preview)} :
          \E sta \in {syncSTA(eta.rw, resolved.sta, env)} :
          \E res \in {ReconcileRowOf(rw, resolved, eta, sta)} :
            sync' = [sync EXCEPT
                       !.rows[r] = res.rw,
                       !.queue = Tail(@),
                       !.errorCount = @ + res.errorCount,
                       !.pc = IF res.raised THEN "idle" ELSE @,
                       !.last.raised = res.raised]
  /\ UNCHANGED sheetVars
  /\ UNCHANGED ad

\* main, 1086-1088: the pass returned; main raises when it counted an error
FinishMain ==
  /\ sync.pc = "rows"
  /\ sync.queue = << >>
  /\ sync' = [sync EXCEPT !.pc = "idle",
                          !.last.raised = sync.errorCount > 0]
  /\ UNCHANGED sheetVars
  /\ UNCHANGED ad

NextMain == EditHeader \/ StartMain \/ MainReconcileRow \/ FinishMain

SpecMain == InitMain /\ [][NextMain]_vars

\* a header cell differs from its column once both are normalised
HeaderMismatch(headerValues) ==
  \E i \in DOMAIN columns :
    _parseHeader(columnMappingSpecialCases, headerValues[i])
      # _parseHeader(columnMappingSpecialCases, columns[i])

\* C32: when the header row does not match the configured columns, main
\* returns before any row is processed: no ad is exported to the sheet, no
\* row is reconciled or marked, and no remote entity is created or mutated
C32_AbortsOnBadHeader ==
  (sync.runs > 0 /\ HeaderMismatch(sync.last.header)) =>
    /\ ~sync.last.valid
    /\ sync.pc = "idle"
    /\ sync.last.exported = << >>
    /\ sync.rows = sync.last.pre

\* a run found a bad header on a sheet with a row ready for creation and a
\* report with an ad to export, outside preview mode
C32_Witness ==
  /\ sync.runs > 0
  /\ HeaderMismatch(sync.last.header)
  /\ ~sync.last.valid
  /\ ~sync.preview
  /\ sync.last.report # << >>
  /\ \E r \in DOMAIN sync.last.pre :
       /\ sync.last.pre[r].cells.readyToUpload = sYes
       /\ sync.last.pre[r].cells.etaId = EMPTY

\* a run with a matching header exports and reconciles
C32_ValidRunActs ==
  /\ sync.runs > 0
  /\ sync.last.valid
  /\ sync.last.exported # << >>
  /\ \E r \in DOMAIN sync.rows : sync.rows[r].created > 0

====
